---------------------------- MODULE Spec2Model ----------------------------
(* Model of the retry integration (custom_components/retry/__init__.py):   *)
(* the retry.action service handler, the RetryAction attempt chain, the    *)
(* process-wide _running_retries registry and the backoff timer.            *)
EXTENDS Integers, Sequences, FiniteSets, TLC

VARIABLES
    chain,              \* RetryAction objects, in creation order
    running_retries,    \* _running_retries: retry_id -> [ctx, count]
    issues,             \* issue registry: ids of the repair tickets
    disable_repair,     \* config_entry.options[CONF_DISABLE_REPAIR]
    last_call,          \* what the last retry.action call raised to its caller
    script,             \* the run of retry.actions: its sequence and position
    _running_retries_write_lock,  \* the thread that holds the lock, or Unlocked
    threads,            \* the threads inside _start_id and _end_id
    serial              \* history: the registry of the calls run one at a time

lock_vars == <<_running_retries_write_lock, threads, serial>>

vars == <<chain, running_retries, issues, disable_repair, last_call, script, lock_vars>>

-----------------------------------------------------------------------------
(* Bounds of the model.                                                     *)
MaxChains == 2
MaxRetries == 2
MaxReturning == 3
MaxAttempt == 3
MaxThreads == 3

(* Program constants.                                                       *)
DEFAULT_RETRIES == 7
DEFAULT_BACKOFF == <<"[[", "2 ** attempt", "]]">>
DEFAULT_STATE_GRACE == "0.2"

None == "<None>"
Absent == <<"<absent>">>
NoTimer == -1

(* The platform around the integration.                                     *)
TEST_SERVICE == "retry.test_service"
HassServices == {TEST_SERVICE}
Entities == {"binary_sensor.test", "binary_sensor.test2"}
EntityStates == {"on", "off", "unavailable"}
MissingEntities == {"binary_sensor.invalid", "light.invalid"}
NumberEntities == {"input_number.test"}
NumberStates == {"50.0", "7.0", "unavailable"}
NoEntity == "<no entity>"
ContextIds == {"ctx1", "ctx2"}

Terminal == {"SUCCEEDED", "EXHAUSTED", "CANCELLED"}

-----------------------------------------------------------------------------
(* Templates are token sequences; the artificial brackets are one token.    *)
FixToken(t) ==
    CASE t = "[[" -> "{{"
      [] t = "]]" -> "}}"
      [] t = "[%" -> "{%"
      [] t = "%]" -> "%}"
      [] t = "[#" -> "{#"
      [] t = "#]" -> "#}"
      [] OTHER -> t

_fix_template_tokens(value) == [k \in 1..Len(value) |-> FixToken(value[k])]

DEFAULT_BACKOFF_FIXED == _fix_template_tokens(DEFAULT_BACKOFF)

(* cv.string rejects lists and dicts, anything else becomes a template.     *)
NonString == <<"<list>">>

_backoff_parameter(value) ==
    IF value = NonString
    THEN [invalid |-> TRUE, template |-> <<>>]
    ELSE [invalid |-> FALSE, template |-> _fix_template_tokens(value)]

_validation_parameter(value) ==
    IF value = NonString
    THEN [invalid |-> TRUE, template |-> <<>>]
    ELSE [invalid |-> FALSE, template |-> _fix_template_tokens(value)]

RECURSIVE Pow2(_)
Pow2(n) == IF n = 0 THEN 1 ELSE 2 * Pow2(n - 1)

(* Template.async_render followed by float(): the seconds, or ValueError.   *)
FloatOfRender(template, attempt) ==
    CASE template = <<"{{", "2 ** attempt", "}}">> ->
            [raises |-> FALSE, seconds |-> Pow2(attempt)]
      [] template = <<"{{", "10 * 2 ** attempt", "}}">> ->
            [raises |-> FALSE, seconds |-> 10 * Pow2(attempt)]
      [] template = <<"10">> -> [raises |-> FALSE, seconds |-> 10]
      [] OTHER -> [raises |-> TRUE, seconds |-> 0]

(* float() of a state string: the number, or ValueError.                    *)
Float(s) ==
    CASE s = "50" -> [raises |-> FALSE, value |-> 50]
      [] s = "50.0" -> [raises |-> FALSE, value |-> 50]
      [] s = "7" -> [raises |-> FALSE, value |-> 7]
      [] s = "7.0" -> [raises |-> FALSE, value |-> 7]
      [] OTHER -> [raises |-> TRUE, value |-> 0]

-----------------------------------------------------------------------------
(* _running_retries and the RetryAction methods that touch it.  The write   *)
(* lock is held for the whole of _start_id and _end_id, which run without   *)
(* a suspension point.                                                      *)
TruthyNotNone(retry_id) == retry_id # None

(* not self._retry_id: None and the empty string are falsy.                 *)
Truthy(retry_id) == retry_id # None /\ retry_id # ""

_check_id_any_owner(rr, self) ==
    \/ ~Truthy(self.retry_id)
    \/ self.retry_id \in DOMAIN rr

_check_id(rr, self) ==
    \/ ~Truthy(self.retry_id)
    \/ (IF self.retry_id \in DOMAIN rr THEN rr[self.retry_id].ctx ELSE None)
            = self.context

_set_id(rr, self, count) ==
    IF Truthy(self.retry_id)
    THEN [k \in DOMAIN rr \cup {self.retry_id} |->
            IF k = self.retry_id
            THEN [ctx |-> self.context, count |-> count]
            ELSE rr[k]]
    ELSE rr

_start_id_count_one(rr, self) ==
    IF ~Truthy(self.retry_id) THEN rr ELSE _set_id(rr, self, 1)

_start_id(rr, self) ==
    IF ~Truthy(self.retry_id)
    THEN rr
    ELSE _set_id(rr, self,
                 IF ~_check_id(rr, self) THEN 1
                 ELSE rr[self.retry_id].count + 1)

_end_id_keep(rr, self) ==
    IF ~Truthy(self.retry_id)
    THEN rr
    ELSE IF ~_check_id(rr, self)
    THEN rr
    ELSE _set_id(rr, self, rr[self.retry_id].count - 1)

_end_id_any_owner(rr, self) ==
    IF ~Truthy(self.retry_id) \/ self.retry_id \notin DOMAIN rr
    THEN rr
    ELSE IF rr[self.retry_id].count = 1
    THEN [k \in DOMAIN rr \ {self.retry_id} |-> rr[k]]
    ELSE [rr EXCEPT ![self.retry_id].count = @ - 1]

_end_id(rr, self) ==
    IF ~Truthy(self.retry_id)
    THEN rr
    ELSE IF ~_check_id(rr, self)
    THEN rr
    ELSE LET count == rr[self.retry_id].count - 1
         IN  IF count = 0
             THEN [k \in DOMAIN rr \ {self.retry_id} |-> rr[k]]
             ELSE _set_id(rr, self, count)

-----------------------------------------------------------------------------
(* RetryParams: the parameters of one call, shared by its RetryActions.     *)
has_service_any(domain_service) == TRUE

has_service(domain_service) == domain_service \in HassServices

_retry_data(data) ==
    IF ~has_service(data.action)
    THEN [raises |-> "ServiceNotFound"]
    ELSE [raises |-> None,
          action |-> data.action,
          retries |-> data.retries,
          backoff |-> _backoff_parameter(data.backoff).template,
          has_retry_id |-> data.has_retry_id,
          retry_id |-> data.retry_id,
          on_error |-> data.on_error,
          expected_state |-> data.expected_state,
          validation |-> IF data.validation = Absent THEN Absent
                         ELSE _validation_parameter(data.validation).template,
          state_delay |-> data.state_delay]

(* The schema of the inner action is applied to the forwarded fields.       *)
_inner_data(data) ==
    IF data.invalid_field
    THEN [raises |-> "Invalid"]
    ELSE [raises |-> None, entity_id |-> data.entity_id,
          device_id |-> data.device_id]

RECURSIVE SetToSeq(_)
SetToSeq(S) ==
    IF S = {} THEN <<>>
    ELSE LET x == CHOOSE y \in S : TRUE IN <<x>> \o SetToSeq(S \ {x})

(* The entities of the group platform and the entity_id list in the         *)
(* extra_state_attributes of each: a plain group, a group of a group, a     *)
(* group that reaches one entity on two paths, a group without members and  *)
(* a group that lists itself.                                               *)
Groups == {"light.test", "group.nested", "group.twice", "group.empty", "group.loop"}

extra_state_attributes(entity_id) ==
    CASE entity_id = "light.test" -> <<"light.invalid">>
      [] entity_id = "group.nested" -> <<"light.test", "binary_sensor.test">>
      [] entity_id = "group.twice" -> <<"light.test", "light.invalid">>
      [] entity_id = "group.empty" -> <<>>
      [] entity_id = "group.loop" -> <<"group.loop">>

(* entity_obj.platform.platform_name == GROUP_DOMAIN                        *)
is_group(entity_id) == entity_id \in Groups

(* The depth at which the interpreter ends a recursion with RecursionError. *)
RecursionLimit == 4
RecursionError == "RecursionError"

_expand_group_one_level(entity_id) ==
    IF is_group(entity_id) THEN extra_state_attributes(entity_id)
    ELSE <<entity_id>>

(* _expand_group at a depth of the recursion; the members are expanded in   *)
(* their order and the lists are joined, nothing is removed.                *)
RECURSIVE _expand_group_at(_, _), _expand_members(_, _)
_expand_group_at(entity_id, depth) ==
    IF depth > RecursionLimit THEN <<RecursionError>>
    ELSE IF is_group(entity_id)
    THEN _expand_members(extra_state_attributes(entity_id), depth + 1)
    ELSE <<entity_id>>

_expand_members(member_ids, depth) ==
    IF member_ids = <<>> THEN <<>>
    ELSE _expand_group_at(Head(member_ids), depth)
            \o _expand_members(Tail(member_ids), depth)

_expand_group(entity_id) == _expand_group_at(entity_id, 1)

RECURSIVE ExpandAll(_)
ExpandAll(ids) ==
    IF ids = <<>> THEN <<>>
    ELSE _expand_group(Head(ids)) \o ExpandAll(Tail(ids))

(* entities.referenced | entities.indirectly_referenced is a set; the       *)
(* expansions of its elements are joined by extend.                         *)
_entity_ids(inner_data) == ExpandAll(SetToSeq(inner_data.entity_id))

(* The expansion did not end: RetryParams.__init__ raises.                  *)
entity_ids_raises(inner_data) ==
    \E k \in 1..Len(_entity_ids(inner_data)) :
        _entity_ids(inner_data)[k] = RecursionError

(* The RetryParams object: retry_data with inner_data beside it.            *)
RetryParams(data) ==
    LET retry_data == _retry_data(data) IN
    [raises |-> retry_data.raises,
     action |-> retry_data.action,
     retries |-> retry_data.retries,
     backoff |-> retry_data.backoff,
     has_retry_id |-> retry_data.has_retry_id,
     retry_id |-> retry_data.retry_id,
     on_error |-> retry_data.on_error,
     expected_state |-> retry_data.expected_state,
     validation |-> retry_data.validation,
     state_delay |-> retry_data.state_delay,
     inner_data |-> _inner_data(data)]

(* cv.positive_int: vol.All(vol.Coerce(int), vol.Range(min=0)).              *)
positive_int(value) == value >= 0

(* The value of vol.Schema validation of the call: ACTION_SERVICE_SCHEMA.   *)
ACTION_SERVICE_SCHEMA(data) ==
    IF ~positive_int(data.retries)
    THEN "Invalid"
    ELSE IF _backoff_parameter(data.backoff).invalid
    THEN "Invalid"
    ELSE IF data.validation # Absent /\ _validation_parameter(data.validation).invalid
    THEN "Invalid"
    ELSE None

-----------------------------------------------------------------------------
(* RetryAction.__init__; sup is a history field: what the chain had done    *)
(* when another context first took its retry_id.                            *)
NoSup == [calls |-> 0, pc |-> None, by |-> 0]

(* homeassistant.core.Context(user_id, parent_id): the id is not given, so  *)
(* the object gets a new one, named here after its parent; a context has    *)
(* one child at most that is ever compared with another context.  The       *)
(* callers of the model have no user.                                       *)
NewId(parent_id) ==
    CASE parent_id = "ctx1" -> "ctx1.1"
      [] parent_id = "ctx2" -> "ctx2.1"
      [] parent_id = "ctx1.1" -> "ctx1.1.1"
      [] parent_id = "ctx2.1" -> "ctx2.1.1"
      [] OTHER -> "<new id>"

NoContext == [user_id |-> None, parent_id |-> None, id |-> None]

Context(user_id, parent_id) ==
    [user_id |-> user_id, parent_id |-> parent_id, id |-> NewId(parent_id)]

default_retry_id_action(params, entity_id) == params.action

(* The retry_id of a call that gives none.                                  *)
default_retry_id(params, entity_id) ==
    IF entity_id # None THEN entity_id ELSE params.action

inner_data_with_targets(params, entity_id) ==
    [entity_id |-> params.inner_data.entity_id,
     device_id |-> params.inner_data.device_id]

(* self._inner_data: with an entity the target fields of the call are       *)
(* removed and the entity is the one target.                                *)
inner_data_of(params, entity_id) ==
    IF entity_id # None
    THEN [entity_id |-> {entity_id}, device_id |-> None]
    ELSE [entity_id |-> params.inner_data.entity_id,
          device_id |-> params.inner_data.device_id]

RetryAction(params, context, entity_id) ==
    [params |-> params,
     inner_data |-> inner_data_of(params, entity_id),
     entity_id |-> entity_id,
     context |-> context,
     attempt |-> 1,
     retry_id |-> IF params.has_retry_id THEN params.retry_id
                  ELSE default_retry_id(params, entity_id),
     pc |-> "PENDING",
     timer |-> NoTimer,
     calls |-> 0,
     fails |-> 0,
     repairs |-> 0,
     fallbacks |-> 0,
     on_error_vars |-> None,
     seen |-> None,
     delays |-> 0,
     graces |-> 0,
     gate_fails |-> 0,
     sup |-> NoSup,
     owner_seen |-> None,
     call_context |-> NoContext,
     on_error_context |-> NoContext]

Superseded(chs, rr, new) ==
    [j \in 1..Len(chs) |->
        IF /\ Truthy(new.retry_id)
           /\ chs[j].retry_id = new.retry_id
           /\ chs[j].context # new.context
           /\ chs[j].pc \notin Terminal \cup {"ABORTED"}
           /\ _check_id(rr, chs[j])
           /\ chs[j].sup = NoSup
        THEN [chs[j] EXCEPT !.sup = [calls |-> chs[j].calls, pc |-> chs[j].pc,
                                    by |-> Len(chs) + 1]]
        ELSE chs[j]]

(* for entity_id in params.entities or [None]: RetryAction(...)             *)
RECURSIVE CreateActions(_, _, _, _, _)
CreateActions(chs, rr, params, context, entities) ==
    IF entities = <<>>
    THEN [chain |-> chs, running_retries |-> rr]
    ELSE LET new == RetryAction(params, context, Head(entities))
         IN  CreateActions(Append(Superseded(chs, rr, new), new),
                           _start_id(rr, new), params, context, Tail(entities))

-----------------------------------------------------------------------------
_check_state_string_only(self, state) ==
    IF state \in {None, NoEntity} \/ self.params.expected_state = Absent
    THEN TRUE
    ELSE \E k \in 1..Len(self.params.expected_state) :
            state = self.params.expected_state[k]

(* RetryAction._check_state; state is the state of the chain's entity, None *)
(* or NoEntity when there is no entity object.                              *)
_check_state(self, state) ==
    IF state \in {None, NoEntity} \/ self.params.expected_state = Absent
    THEN TRUE
    ELSE \E k \in 1..Len(self.params.expected_state) :
            LET expected == self.params.expected_state[k]
            IN  \/ state = expected
                \/ /\ ~Float(state).raises
                   /\ ~Float(expected).raises
                   /\ Float(state).value = Float(expected).value

(* The variables the validation template is rendered with.                  *)
validation_variables(self) ==
    IF self.entity_id # None THEN {"entity_id"} ELSE {}

(* The rendering raises TemplateError: a comparison with an undefined name. *)
validation_raises(self) ==
    /\ self.params.validation = <<"{{", "attempt >= 3", "}}">>
    /\ "attempt" \notin validation_variables(self)

(* result_as_boolean of the rendered validation template.                   *)
_check_validation(self, state) ==
    IF self.params.validation = Absent
    THEN TRUE
    ELSE CASE self.params.validation = <<"{{", "is_state(entity_id, 'on')", "}}">> ->
                self.entity_id # None /\ state = "on"
           [] self.params.validation = <<"{{", "True", "}}">> -> TRUE
           [] self.params.validation = <<"{{", "attempt >= 3", "}}">> ->
                "attempt" \in validation_variables(self) /\ self.attempt >= 3
           [] OTHER -> FALSE

(* What the state machine holds for the chain's entity when it is read: the *)
(* store changes freely between two reads; NoEntity when there is no such   *)
(* entity.                                                                  *)
StatesOf(self) ==
    IF self.entity_id = None THEN {None}
    ELSE IF self.entity_id \in MissingEntities THEN {NoEntity}
    ELSE IF self.entity_id \in NumberEntities THEN NumberStates
    ELSE EntityStates

(* ent_obj is not None and ent_obj.available                                *)
available(state) == state \notin {NoEntity, "unavailable"}

(* The gates read the state of the entity: entity.state in _check_state,    *)
(* is_state in the validation template.                                     *)
gates_read(self) ==
    \/ self.entity_id # None /\ self.params.expected_state # Absent
    \/ self.params.validation = <<"{{", "is_state(entity_id, 'on')", "}}">>

(* The canonical rendering of the call: the id of its repair ticket.        *)
_compose_action_str(self) ==
    <<self.params.action, self.entity_id,
      self.params.expected_state,
      IF self.params.backoff # DEFAULT_BACKOFF_FIXED THEN self.params.backoff ELSE Absent,
      self.params.validation,
      self.params.state_delay,
      IF self.params.has_retry_id /\ self.params.retry_id # "add"
      THEN <<"retry_id", self.params.retry_id>> ELSE Absent>>

_action_str_with_retry_id(self) ==
    [_compose_action_str(self) EXCEPT ![7] = <<"retry_id", self.retry_id>>]

(* The cached rendering.                                                    *)
_action_str(self) == _compose_action_str(self)

(* ir.async_create_issue: the issue registry is keyed by the issue id.      *)
_repair(iss, self) == iss \cup {_action_str(self)}

repair_disabled_never(options) == FALSE

(* config_entry.options.get(CONF_DISABLE_REPAIR), read when it is needed.   *)
repair_disabled(options) == options

on_error_run_variables_none(self) == None

(* run_variables of the on_error script: the entity id when there is one.   *)
on_error_run_variables(self) ==
    IF self.entity_id # None THEN self.entity_id ELSE None

-----------------------------------------------------------------------------
(* No call of retry.actions was made.                                       *)
(* A thread that runs the registry methods of one RetryAction: _start_id    *)
(* from __init__ and later _end_id.  read is the local value computed       *)
(* under the lock before _running_retries is written.                       *)
Threads == 1..MaxThreads

(* threading.Lock(): created unlocked; no thread has number 0.              *)
Unlocked == 0

NoThread == [pc |-> "NEW", op |-> None, retry_id |-> None, context |-> None, read |-> 0]

NoScript ==
    [pc |-> "NONE", context |-> None, retries |-> 0, sequence |-> <<>>,
     wrapped |-> <<>>, todo |-> <<>>, raised |-> None, invoked |-> 0,
     after_failure |-> FALSE]

Init ==
    /\ chain = <<>>
    /\ running_retries = <<>>
    /\ issues = {}
    /\ disable_repair = FALSE
    /\ last_call = [action |-> None, invalid_field |-> FALSE, backoff |-> Absent,
                    raised |-> None]
    /\ script = NoScript
    /\ _running_retries_write_lock = Unlocked
    /\ threads = [t \in Threads |-> NoThread]
    /\ serial = <<>>

(* What RetryParams(hass, config_entry, data) raises.                       *)
RetryParams_raises(data) ==
    IF _retry_data(data).raises # None THEN _retry_data(data).raises
    ELSE IF _inner_data(data).raises # None THEN _inner_data(data).raises
    ELSE IF entity_ids_raises(_inner_data(data)) THEN RecursionError
    ELSE None

(* What a call of retry.action raises to its caller: the schema of the      *)
(* service is applied before the handler runs.                              *)
async_action_raises(data) ==
    IF ACTION_SERVICE_SCHEMA(data) # None THEN ACTION_SERVICE_SCHEMA(data)
    ELSE RetryParams_raises(data)

(* The handler of retry.action, schema validation included, for any caller  *)
(* and at most max chains in all.                                           *)
async_action_bounded(data, max) ==
    LET inner == _inner_data(data)
        raised == async_action_raises(data)
    IN  /\ last_call' = [action |-> data.action, invalid_field |-> data.invalid_field,
                         backoff |-> data.backoff, raised |-> raised]
        /\ IF raised # None
           THEN UNCHANGED <<chain, running_retries>>
           ELSE LET entities == IF _entity_ids(inner) = <<>> THEN <<None>>
                                ELSE _entity_ids(inner)
                    made == CreateActions(chain, running_retries, RetryParams(data),
                                          data.context, entities)
                IN  /\ Len(chain) + Len(entities) <= max
                    /\ chain' = made.chain
                    /\ running_retries' = made.running_retries
        /\ UNCHANGED <<issues, disable_repair>>

async_action_call(data) == async_action_bounded(data, MaxChains)

(* async_action: a call of retry.action from outside a retry.actions run.   *)
async_action(data) ==
    /\ async_action_call(data)
    /\ UNCHANGED <<script, lock_vars>>

(* The end of a successful attempt: log, _end_id.  self is chain[i] with    *)
(* the history of the evaluation that let it pass.                          *)
Succeed(i, self) ==
    /\ chain' = [chain EXCEPT ![i] = [self EXCEPT !.pc = "SUCCEEDED"]]
    /\ running_retries' = _end_id(running_retries, chain[i])
    /\ UNCHANGED <<issues, disable_repair, last_call, script, lock_vars>>

(* The seconds until the next attempt, from the attempt that just failed.   *)
next_retry_of_attempt(self) == FloatOfRender(self.params.backoff, self.attempt)

next_retry(self) == FloatOfRender(self.params.backoff, self.attempt - 1)

last_attempt_early(self) == self.attempt + 1 >= self.params.retries

(* self._attempt == retries: the attempt that failed was the last one.      *)
last_attempt(self) == self.attempt = self.params.retries

rescheduled_same_attempt(self, seconds) ==
    [self EXCEPT !.fails = @ + 1, !.timer = seconds, !.pc = "SCHEDULED_RETRY"]

(* self._attempt += 1; async_track_point_in_time(..., next_retry)           *)
rescheduled(self, seconds) ==
    [self EXCEPT !.fails = @ + 1, !.attempt = @ + 1, !.timer = seconds,
                 !.pc = "SCHEDULED_RETRY"]

Fail_without_release(i, self) ==
    IF last_attempt(self)
    THEN /\ chain' = [chain EXCEPT ![i] = [self EXCEPT
                !.fails = @ + 1,
                !.repairs = IF repair_disabled(disable_repair) THEN @ ELSE @ + 1,
                !.fallbacks = IF self.params.on_error THEN @ + 1 ELSE @,
                !.on_error_vars = IF self.params.on_error
                                  THEN on_error_run_variables(self) ELSE @,
                !.on_error_context = IF self.params.on_error
                                     THEN Context(None, self.context) ELSE @,
                !.pc = IF self.params.on_error THEN "FALLBACK" ELSE "EXHAUSTED"]]
         /\ issues' = IF repair_disabled(disable_repair) THEN issues
                      ELSE _repair(issues, self)
         /\ running_retries' = IF self.params.on_error THEN running_retries
                                ELSE _end_id(running_retries, self)
         /\ UNCHANGED <<disable_repair, last_call, script, lock_vars>>
    ELSE /\ chain' = IF next_retry(self).raises
                     THEN [chain EXCEPT ![i] = [self EXCEPT !.fails = @ + 1,
                                                            !.pc = "ABORTED"]]
                     ELSE [chain EXCEPT ![i] = rescheduled(self, next_retry(self).seconds)]
         /\ UNCHANGED <<running_retries, issues, disable_repair, last_call, script, lock_vars>>

(* The except branch of async_retry.  self is chain[i] with the history of  *)
(* the evaluation that failed.                                              *)
Fail(i, self) ==
    IF last_attempt(self)
    THEN /\ chain' = [chain EXCEPT ![i] = [self EXCEPT
                !.fails = @ + 1,
                !.repairs = IF repair_disabled(disable_repair) THEN @ ELSE @ + 1,
                !.fallbacks = IF self.params.on_error THEN @ + 1 ELSE @,
                !.on_error_vars = IF self.params.on_error
                                  THEN on_error_run_variables(self) ELSE @,
                !.on_error_context = IF self.params.on_error
                                     THEN Context(None, self.context) ELSE @,
                !.pc = IF self.params.on_error THEN "FALLBACK" ELSE "EXHAUSTED"]]
         /\ issues' = IF repair_disabled(disable_repair) THEN issues
                      ELSE _repair(issues, self)
         /\ running_retries' = _end_id(running_retries, self)
         /\ UNCHANGED <<disable_repair, last_call, script, lock_vars>>
    ELSE /\ chain' = IF next_retry(self).raises
                     THEN [chain EXCEPT ![i] = [self EXCEPT !.fails = @ + 1,
                                                            !.pc = "ABORTED"]]
                     ELSE [chain EXCEPT ![i] = rescheduled(self, next_retry(self).seconds)]
         /\ UNCHANGED <<running_retries, issues, disable_repair, last_call, script, lock_vars>>

(* What _check_id finds in _running_retries: the context that holds the    *)
(* retry_id of the chain, NoEntry when none does, None when the retry_id    *)
(* is not looked up.                                                        *)
NoEntry == "<no entry>"

owner_read(rr, self) ==
    IF ~Truthy(self.retry_id) THEN None
    ELSE IF self.retry_id \in DOMAIN rr THEN rr[self.retry_id].ctx
    ELSE NoEntry

async_retry_unchecked(i) ==
    /\ chain' = [chain EXCEPT ![i].pc = "IN_FLIGHT", ![i].timer = NoTimer,
                              ![i].calls = @ + 1,
                              ![i].call_context = Context(None, chain[i].context),
                              ![i].owner_seen = owner_read(running_retries, chain[i])]
    /\ UNCHANGED <<running_retries, issues, disable_repair, last_call, script, lock_vars>>

(* The head of async_retry up to the await of the inner call; owner_seen    *)
(* and call_context are history fields: what the check read and the         *)
(* context given to the last inner call.                                    *)
async_retry(i) ==
    /\ IF ~_check_id(running_retries, chain[i])
       THEN chain' = [chain EXCEPT ![i].pc = "CANCELLED", ![i].timer = NoTimer,
                        ![i].owner_seen = owner_read(running_retries, chain[i])]
       ELSE chain' = [chain EXCEPT ![i].pc = "IN_FLIGHT", ![i].timer = NoTimer,
                        ![i].calls = @ + 1,
                        ![i].call_context = Context(None, chain[i].context),
                        ![i].owner_seen = owner_read(running_retries, chain[i])]
    /\ UNCHANGED <<running_retries, issues, disable_repair, last_call, script, lock_vars>>

(* The task created by async_action starts.                                 *)
TaskStart(i) ==
    /\ chain[i].pc = "PENDING"
    /\ async_retry(i)

(* The point in time of async_track_point_in_time is reached.               *)
TimerFire(i) ==
    /\ chain[i].pc = "SCHEDULED_RETRY"
    /\ chain[i].timer = 0
    /\ async_retry(i)

(* What an evaluation of the gates leaves in the history of the chain: the  *)
(* state it read, when a gate reads it.                                     *)
evaluated(self, state) ==
    [self EXCEPT !.seen = IF gates_read(self) THEN state ELSE None]

(* await asyncio.sleep(state_grace)                                         *)
grace_wait(self, state) ==
    [evaluated(self, state) EXCEPT !.pc = "STATE_GRACE", !.graces = @ + 1]

CheckGates_without_grace(i, state) ==
    IF _check_state(chain[i], state) /\ ~validation_raises(chain[i])
       /\ _check_validation(chain[i], state)
    THEN Succeed(i, evaluated(chain[i], state))
    ELSE Fail(i, [chain[i] EXCEPT !.seen = None])

(* The first evaluation of the gates in _async_validate: the validation is  *)
(* rendered only when the state is the expected one.                        *)
CheckGates(i, state) ==
    IF ~_check_state(chain[i], state)
    THEN /\ chain' = [chain EXCEPT ![i] = grace_wait(chain[i], state)]
         /\ UNCHANGED <<running_retries, issues, disable_repair, last_call, script, lock_vars>>
    ELSE IF validation_raises(chain[i])
    THEN Fail(i, [chain[i] EXCEPT !.seen = None])
    ELSE IF ~_check_validation(chain[i], state)
    THEN /\ chain' = [chain EXCEPT ![i] = grace_wait(chain[i], state)]
         /\ UNCHANGED <<running_retries, issues, disable_repair, last_call, script, lock_vars>>
    ELSE Succeed(i, evaluated(chain[i], state))

CallReturns_without_availability(i, state) ==
    /\ chain[i].pc = "IN_FLIGHT"
    /\ state \in StatesOf(chain[i])
    /\ IF chain[i].params.state_delay > 0
       THEN /\ chain' = [chain EXCEPT ![i].pc = "STATE_DELAY", ![i].delays = @ + 1]
            /\ UNCHANGED <<running_retries, issues, disable_repair, last_call, script, lock_vars>>
       ELSE CheckGates(i, state)

(* The inner call returned: _async_validate up to its first await.          *)
CallReturns(i, state) ==
    /\ chain[i].pc = "IN_FLIGHT"
    /\ state \in StatesOf(chain[i])
    /\ IF chain[i].entity_id # None /\ ~available(state)
       THEN Fail(i, chain[i])
       ELSE IF chain[i].params.state_delay > 0
       THEN /\ chain' = [chain EXCEPT ![i].pc = "STATE_DELAY", ![i].delays = @ + 1]
            /\ UNCHANGED <<running_retries, issues, disable_repair, last_call, script, lock_vars>>
       ELSE CheckGates(i, state)

(* The inner call raised.                                                   *)
CallRaises(i) ==
    /\ chain[i].pc = "IN_FLIGHT"
    /\ Fail(i, chain[i])

(* asyncio.sleep(state_delay) is over.                                      *)
StateDelayDone(i, state) ==
    /\ chain[i].pc = "STATE_DELAY"
    /\ state \in StatesOf(chain[i])
    /\ CheckGates(i, state)

(* asyncio.sleep(state_grace) is over: the gates are evaluated again.       *)
StateGraceDone(i, state) ==
    /\ chain[i].pc = "STATE_GRACE"
    /\ state \in StatesOf(chain[i])
    /\ LET failed == [chain[i] EXCEPT !.seen = None, !.gate_fails = @ + 1] IN
       IF ~_check_state(chain[i], state)
       THEN Fail(i, failed)
       ELSE IF validation_raises(chain[i])
       THEN Fail(i, failed)
       ELSE IF ~_check_validation(chain[i], state)
       THEN Fail(i, failed)
       ELSE Succeed(i, evaluated(chain[i], state))

(* The on_error script has run.                                             *)
OnErrorDone(i) ==
    /\ chain[i].pc = "FALLBACK"
    /\ chain' = [chain EXCEPT ![i].pc = "EXHAUSTED"]
    /\ UNCHANGED <<running_retries, issues, disable_repair, last_call, script, lock_vars>>

(* Time passes up to the next armed point in time.                          *)
Armed == {i \in 1..Len(chain) : chain[i].timer > 0}

AdvanceTime ==
    /\ Armed # {}
    /\ LET d == CHOOSE d \in {chain[i].timer : i \in Armed} :
                    \A j \in Armed : d <= chain[j].timer
       IN  chain' = [i \in 1..Len(chain) |->
                        IF i \in Armed THEN [chain[i] EXCEPT !.timer = @ - d]
                        ELSE chain[i]]
    /\ UNCHANGED <<running_retries, issues, disable_repair, last_call, script, lock_vars>>

(* The options flow stores a new value of disable_repair.                   *)
SetOptions(b) ==
    /\ disable_repair # b
    /\ disable_repair' = b
    /\ UNCHANGED <<chain, running_retries, issues, last_call, script, lock_vars>>

-----------------------------------------------------------------------------
(* _start_id and _end_id statement by statement, for threads that call      *)
(* them at the same time.                                                   *)
acquirable_always(lock) == TRUE

(* threading.Lock.acquire: blocks while another thread holds the lock.      *)
acquirable(lock) == lock = Unlocked

(* RetryAction.__init__ calls self._start_id(): without a retry_id the      *)
(* method returns before the lock.                                          *)
EnterStart(t, retry_id, context) ==
    /\ threads[t].pc = "NEW"
    /\ threads' = [threads EXCEPT ![t] =
            [pc |-> IF Truthy(retry_id) THEN "WAIT" ELSE "RUNNING",
             op |-> "_start_id", retry_id |-> retry_id, context |-> context,
             read |-> 0]]
    /\ UNCHANGED <<chain, running_retries, issues, disable_repair, last_call, script,
                   _running_retries_write_lock, serial>>

(* async_retry calls self._end_id().                                        *)
EnterEnd(t) ==
    /\ threads[t].pc = "RUNNING"
    /\ threads' = [threads EXCEPT ![t].op = "_end_id",
                                  ![t].pc = IF Truthy(threads[t].retry_id)
                                            THEN "WAIT" ELSE "DONE"]
    /\ UNCHANGED <<chain, running_retries, issues, disable_repair, last_call, script,
                   _running_retries_write_lock, serial>>

(* with _running_retries_write_lock: entry.  serial takes the whole method  *)
(* at this point.                                                           *)
Acquire(t) ==
    /\ threads[t].pc = "WAIT"
    /\ acquirable(_running_retries_write_lock)
    /\ _running_retries_write_lock' = t
    /\ threads' = [threads EXCEPT ![t].pc = "READ"]
    /\ serial' = IF threads[t].op = "_start_id" THEN _start_id(serial, threads[t])
                  ELSE _end_id(serial, threads[t])
    /\ UNCHANGED <<chain, running_retries, issues, disable_repair, last_call, script>>

(* The reads of _running_retries: _check_id and the count.  _end_id         *)
(* returns, inside the with block, when the entry is not its own.           *)
Read(t) ==
    /\ threads[t].pc = "READ"
    /\ threads' = [threads EXCEPT
            ![t].read = IF ~_check_id(running_retries, threads[t])
                        THEN (IF threads[t].op = "_start_id" THEN 1 ELSE 0)
                        ELSE IF threads[t].op = "_start_id"
                        THEN running_retries[threads[t].retry_id].count + 1
                        ELSE running_retries[threads[t].retry_id].count - 1,
            ![t].pc = IF threads[t].op = "_end_id"
                         /\ ~_check_id(running_retries, threads[t])
                      THEN "EXIT" ELSE "WRITE"]
    /\ UNCHANGED <<chain, running_retries, issues, disable_repair, last_call, script,
                   _running_retries_write_lock, serial>>

(* self._set_id(count), or del _running_retries[self._retry_id].            *)
Write(t) ==
    /\ threads[t].pc = "WRITE"
    /\ running_retries' =
            IF threads[t].op = "_end_id" /\ threads[t].read = 0
            THEN [k \in DOMAIN running_retries \ {threads[t].retry_id} |->
                    running_retries[k]]
            ELSE _set_id(running_retries, threads[t], threads[t].read)
    /\ threads' = [threads EXCEPT ![t].pc = "EXIT"]
    /\ UNCHANGED <<chain, issues, disable_repair, last_call, script,
                   _running_retries_write_lock, serial>>

(* The end of the with block releases the lock.                             *)
Release(t) ==
    /\ threads[t].pc = "EXIT"
    /\ _running_retries_write_lock' = Unlocked
    /\ threads' = [threads EXCEPT ![t].pc = IF threads[t].op = "_start_id"
                                            THEN "RUNNING" ELSE "DONE"]
    /\ UNCHANGED <<chain, running_retries, issues, disable_repair, last_call, script,
                   serial>>

-----------------------------------------------------------------------------
(* retry.actions.  A node of the sequence is a record with a kind and the   *)
(* keys of that kind: a call has action, data and target; repeat and        *)
(* sequence have sequence; choose has choose, a list of sequences, and      *)
(* may have default; if has then and may have else; parallel has parallel,  *)
(* a list of sequences; any other node has its kind only.                   *)
ACTION_SERVICE == "retry.action"
CALL_SERVICE == "retry.call"
ACTIONS_SERVICE == "retry.actions"

(* The keys of service_call.data in SERVICE_SCHEMA_BASE_FIELDS, backoff and *)
(* validation reverted to the string of their template.                     *)
retry_params_of(data) ==
    [retries |-> data.retries,
     backoff |-> _backoff_parameter(data.backoff).template,
     has_retry_id |-> data.has_retry_id,
     retry_id |-> data.retry_id,
     on_error |-> data.on_error,
     expected_state |-> data.expected_state,
     validation |-> IF data.validation = Absent THEN Absent
                    ELSE _validation_parameter(data.validation).template,
     state_delay |-> data.state_delay]

(* {**action[ATTR_DATA], **action.get(CONF_TARGET, {})}: the data of the    *)
(* call of retry.action a rewritten node makes.                             *)
leaf_data(action, context) ==
    [context |-> context,
     action |-> action.data.action,
     entity_id |-> action.target,
     invalid_field |-> action.data.invalid_field,
     device_id |-> None,
     retries |-> action.data.retries,
     backoff |-> action.data.backoff,
     has_retry_id |-> action.data.has_retry_id,
     retry_id |-> action.data.retry_id,
     on_error |-> action.data.on_error,
     expected_state |-> action.data.expected_state,
     validation |-> action.data.validation,
     state_delay |-> action.data.state_delay]

disallowed_actions_only(domain_service) ==
    IF domain_service = ACTIONS_SERVICE THEN "IntegrationError" ELSE None

(* The two checks of the name of a call in _wrap_actions.                   *)
disallowed(domain_service) ==
    IF domain_service = ACTIONS_SERVICE THEN "IntegrationError"
    ELSE IF domain_service \in {ACTION_SERVICE, CALL_SERVICE} THEN "IntegrationError"
    ELSE None

wrapped_without_params(action, retry_params) ==
    [action EXCEPT
        !.action = ACTION_SERVICE,
        !.data = [invalid_field |-> action.data.invalid_field,
                  action |-> action.action,
                  retries |-> DEFAULT_RETRIES,
                  backoff |-> DEFAULT_BACKOFF,
                  has_retry_id |-> FALSE,
                  retry_id |-> None,
                  on_error |-> FALSE,
                  expected_state |-> Absent,
                  validation |-> Absent,
                  state_delay |-> 0]]

(* The call node after its rewriting: the data keeps the arguments, gets    *)
(* the name of the action and the retry parameters, and the node calls      *)
(* retry.action.                                                            *)
wrapped(action, retry_params) ==
    [action EXCEPT
        !.action = ACTION_SERVICE,
        !.data = [invalid_field |-> action.data.invalid_field,
                  action |-> action.action,
                  retries |-> retry_params.retries,
                  backoff |-> retry_params.backoff,
                  has_retry_id |-> retry_params.has_retry_id,
                  retry_id |-> retry_params.retry_id,
                  on_error |-> retry_params.on_error,
                  expected_state |-> retry_params.expected_state,
                  validation |-> retry_params.validation,
                  state_delay |-> retry_params.state_delay]]

validated_not(action) == None

(* Validate parameters so errors are not raised in the background.          *)
validated(action) == RetryParams_raises(leaf_data(action, None))

(* _wrap_actions: the sequence after the rewriting, or what was raised on   *)
(* the way; the nodes are visited in their order.                           *)
RECURSIVE _wrap_actions(_, _), _wrap_action(_, _), _wrap_each(_, _)
_wrap_actions(sequence, retry_params) ==
    IF sequence = <<>> THEN [raises |-> None, sequence |-> <<>>]
    ELSE LET first == _wrap_action(Head(sequence), retry_params) IN
         IF first.raises # None
         THEN [raises |-> first.raises, sequence |-> <<>>]
         ELSE LET rest == _wrap_actions(Tail(sequence), retry_params) IN
              [raises |-> rest.raises, sequence |-> <<first.action>> \o rest.sequence]

(* for x in sequences: _wrap_actions(hass, x[CONF_SEQUENCE], retry_params)  *)
_wrap_each(sequences, retry_params) ==
    IF sequences = <<>> THEN [raises |-> None, sequence |-> <<>>]
    ELSE LET first == _wrap_actions(Head(sequences), retry_params) IN
         IF first.raises # None
         THEN [raises |-> first.raises, sequence |-> <<>>]
         ELSE LET rest == _wrap_each(Tail(sequences), retry_params) IN
              [raises |-> rest.raises, sequence |-> <<first.sequence>> \o rest.sequence]

(* One case of the match statement.                                         *)
_wrap_action(action, retry_params) ==
    CASE action.kind = "call" ->
            IF disallowed(action.action) # None
            THEN [raises |-> disallowed(action.action), action |-> action]
            ELSE [raises |-> validated(wrapped(action, retry_params)),
                  action |-> wrapped(action, retry_params)]
      [] action.kind \in {"repeat", "sequence"} ->
            LET body == _wrap_actions(action.sequence, retry_params) IN
            [raises |-> body.raises,
             action |-> [action EXCEPT !.sequence = body.sequence]]
      [] action.kind = "choose" ->
            LET options == _wrap_each(action.choose, retry_params) IN
            IF options.raises # None \/ "default" \notin DOMAIN action
            THEN [raises |-> options.raises,
                  action |-> [action EXCEPT !.choose = options.sequence]]
            ELSE LET default == _wrap_actions(action.default, retry_params) IN
                 [raises |-> default.raises,
                  action |-> [action EXCEPT !.choose = options.sequence,
                                            !.default = default.sequence]]
      [] action.kind = "if" ->
            LET then == _wrap_actions(action.then, retry_params) IN
            IF then.raises # None \/ "else" \notin DOMAIN action
            THEN [raises |-> then.raises,
                  action |-> [action EXCEPT !.then = then.sequence]]
            ELSE LET else == _wrap_actions(action.else, retry_params) IN
                 [raises |-> else.raises,
                  action |-> [action EXCEPT !.then = then.sequence,
                                            !.else = else.sequence]]
      [] action.kind = "parallel" ->
            LET branches == _wrap_each(action.parallel, retry_params) IN
            [raises |-> branches.raises,
             action |-> [action EXCEPT !.parallel = branches.sequence]]
      [] OTHER -> [raises |-> None, action |-> action]

(* The value of vol.Schema validation of the call: ACTIONS_SERVICE_SCHEMA.  *)
ACTIONS_SERVICE_SCHEMA(data) ==
    IF _backoff_parameter(data.backoff).invalid
    THEN "Invalid"
    ELSE IF data.validation # Absent /\ _validation_parameter(data.validation).invalid
    THEN "Invalid"
    ELSE None

(* async_actions up to the await of the run of the script: the schema, the  *)
(* rewriting, and the script with its new context.                          *)
async_actions(data) ==
    LET invalid == ACTIONS_SERVICE_SCHEMA(data)
        made == _wrap_actions(data.sequence, retry_params_of(data))
        raised == IF invalid # None THEN invalid ELSE made.raises
    IN  /\ script.pc = "NONE"
        /\ script' = [pc |-> IF raised # None THEN "RAISED" ELSE "RUNNING",
                      context |-> Context(None, data.context).id,
                      retries |-> data.retries,
                      sequence |-> data.sequence,
                      wrapped |-> IF raised # None THEN <<>> ELSE made.sequence,
                      todo |-> IF raised # None THEN <<>> ELSE made.sequence,
                      raised |-> raised,
                      invoked |-> 0,
                      after_failure |-> FALSE]
        /\ UNCHANGED <<chain, running_retries, issues, disable_repair, last_call, lock_vars>>

RECURSIVE Joined(_)
Joined(sequences) ==
    IF sequences = <<>> THEN <<>> ELSE Head(sequences) \o Joined(Tail(sequences))

RECURSIVE Repeated(_, _)
Repeated(sequence, count) ==
    IF count = 0 THEN <<>> ELSE sequence \o Repeated(sequence, count - 1)

(* What the script runs in place of a node that is no call: for choose and  *)
(* if, pick is the option whose conditions hold, 0 for none of them; for    *)
(* any other node, pick 0 is a condition that does not hold, which ends     *)
(* the run.                                                                 *)
expansion(action, pick) ==
    CASE action.kind = "repeat" -> Repeated(action.sequence, action.count)
      [] action.kind = "sequence" -> action.sequence
      [] action.kind = "parallel" -> Joined(action.parallel)
      [] action.kind = "choose" ->
            IF pick \in 1..Len(action.choose) THEN action.choose[pick]
            ELSE IF "default" \in DOMAIN action THEN action.default
            ELSE <<>>
      [] action.kind = "if" ->
            IF pick = 1 THEN action.then
            ELSE IF "else" \in DOMAIN action THEN action.else
            ELSE <<>>
      [] OTHER -> <<>>

returns_when_chains_end(chs) ==
    \A i \in 1..Len(chs) : chs[i].pc \in Terminal \cup {"ABORTED"}

(* The handler of retry.action creates the tasks and returns: it awaits     *)
(* none of them.                                                            *)
returns(chs) == TRUE

(* One step of the script: a call of retry.action with the context of the   *)
(* script, or the replacement of a node by what it runs.  The branches of   *)
(* parallel are run one after another.                                      *)
ScriptStep(pick) ==
    /\ script.pc = "RUNNING"
    /\ script.todo # <<>>
    /\ LET action == Head(script.todo) IN
       IF action.kind = "call"
       THEN /\ pick = 0
            /\ returns(chain)
            /\ async_action_call(leaf_data(action, script.context))
            /\ UNCHANGED lock_vars
            /\ script' = IF async_action_raises(leaf_data(action, script.context)) # None
                         THEN [script EXCEPT
                                !.pc = "RAISED", !.todo = <<>>,
                                !.raised = async_action_raises(
                                                leaf_data(action, script.context))]
                         ELSE [script EXCEPT
                                !.todo = Tail(@), !.invoked = @ + 1,
                                !.after_failure =
                                    @ \/ \E i \in 1..Len(chain) : chain[i].fails > 0]
       ELSE /\ pick \in 0..2
            /\ script' = IF action.kind \in {"repeat", "sequence", "parallel",
                                             "choose", "if"} \/ pick # 0
                         THEN [script EXCEPT
                                !.todo = expansion(action, pick) \o Tail(@)]
                         ELSE [script EXCEPT !.todo = <<>>]
            /\ UNCHANGED <<chain, running_retries, issues, disable_repair, last_call, lock_vars>>

(* The run of the script is over: async_actions returns.                    *)
ScriptDone ==
    /\ script.pc = "RUNNING"
    /\ script.todo = <<>>
    /\ script' = [script EXCEPT !.pc = "DONE"]
    /\ UNCHANGED <<chain, running_retries, issues, disable_repair, last_call, lock_vars>>

-----------------------------------------------------------------------------
(* The calls of retry.action the model makes.                               *)
Call(context, entity_id, retries, has_retry_id, retry_id) ==
    [context |-> context, action |-> TEST_SERVICE, entity_id |-> entity_id,
     invalid_field |-> FALSE, retries |-> retries, backoff |-> DEFAULT_BACKOFF,
     device_id |-> None,
     has_retry_id |-> has_retry_id, retry_id |-> retry_id, on_error |-> FALSE,
     expected_state |-> Absent, validation |-> Absent, state_delay |-> 0]

States == EntityStates \cup NumberStates \cup {NoEntity, None}

(* Every step of a chain.                                                   *)
ChainSteps ==
    \/ \E i \in 1..Len(chain) : TaskStart(i)
    \/ \E i \in 1..Len(chain) : TimerFire(i)
    \/ \E i \in 1..Len(chain), state \in States : CallReturns(i, state)
    \/ \E i \in 1..Len(chain) : CallRaises(i)
    \/ AdvanceTime

GateSteps ==
    \/ \E i \in 1..Len(chain), state \in States : StateDelayDone(i, state)
    \/ \E i \in 1..Len(chain), state \in States : StateGraceDone(i, state)
    \/ \E i \in 1..Len(chain) : OnErrorDone(i)

(* One caller, every retry count, with and without fallback, and a call     *)
(* of one attempt with a target, both gates and a state delay.              *)
Requests ==
    {Call("ctx1", {}, r, FALSE, None) : r \in 1..MaxRetries}
    \cup {[Call("ctx1", {}, MaxRetries, FALSE, None) EXCEPT !.on_error = TRUE]}
    \cup {[Call("ctx1", {"binary_sensor.test"}, 1, FALSE, None) EXCEPT
              !.expected_state = <<"on">>,
              !.validation = <<"[[", "is_state(entity_id, 'on')", "]]">>,
              !.state_delay = 1]}

Next ==
    \/ \E data \in Requests : async_action(data)
    \/ ChainSteps
    \/ GateSteps
    \/ \E b \in BOOLEAN : SetOptions(b)

Spec == Init /\ [][Next]_vars

(* The default call (7 retries) and calls with other backoff expressions.   *)
BackoffCalls ==
    {Call("ctx1", {}, DEFAULT_RETRIES, FALSE, None)}
    \cup {[Call("ctx1", {}, MaxRetries, FALSE, None) EXCEPT !.backoff = b] :
            b \in {<<"10">>, <<"[[", "'A'", "]]">>, NonString}}

NextBackoff == (\E data \in BackoffCalls : async_action(data)) \/ ChainSteps
SpecBackoff == Init /\ [][NextBackoff]_vars

(* Two callers of the same call (no retry_id), every retry count.           *)
IdCalls == {Call(x, {}, r, FALSE, None) : x \in ContextIds, r \in 1..MaxRetries}

NextId == (\E data \in IdCalls : async_action(data)) \/ ChainSteps
SpecId == Init /\ [][NextId]_vars

(* A good call, a call of an unknown action and a call whose inner          *)
(* parameters the schema of the action rejects.                             *)
ResolveCalls ==
    LET good == Call("ctx1", {}, MaxRetries, FALSE, None) IN
    {good, [good EXCEPT !.action = "invalid.service"],
     [good EXCEPT !.invalid_field = TRUE]}

NextResolve == (\E data \in ResolveCalls : async_action(data)) \/ ChainSteps
SpecResolve == Init /\ [][NextResolve]_vars

(* One retry_id given to a call with two targets and to untargeted calls.   *)
MultiCalls ==
    {Call("ctx1", {"binary_sensor.test", "binary_sensor.test2"}, MaxRetries, TRUE, "id")}
    \cup {Call(x, {}, MaxRetries, TRUE, "id") : x \in ContextIds}

NextMulti == (\E data \in MultiCalls : async_action(data)) \/ ChainSteps
SpecMulti == Init /\ [][NextMulti]_vars

(* Calls with retry_id null or empty, beside calls that give none.          *)
DisabledCalls ==
    {Call("ctx1", {}, MaxRetries, TRUE, None), Call("ctx2", {}, MaxRetries, TRUE, "")}
    \cup {Call(x, {}, MaxRetries, FALSE, None) : x \in ContextIds}

NextDisabled == (\E data \in DisabledCalls : async_action(data)) \/ ChainSteps
SpecDisabled == Init /\ [][NextDisabled]_vars

(* Calls that give no retry_id, and calls whose retry_id is the default of  *)
(* the former.                                                              *)
DefaultIdCalls ==
    {Call("ctx1", {"binary_sensor.test"}, MaxRetries, FALSE, None),
     Call("ctx1", {}, MaxRetries, FALSE, None),
     Call("ctx2", {}, MaxRetries, TRUE, "binary_sensor.test"),
     Call("ctx2", {}, MaxRetries, TRUE, TEST_SERVICE)}

NextDefaultId == (\E data \in DefaultIdCalls : async_action(data)) \/ ChainSteps
SpecDefaultId == Init /\ [][NextDefaultId]_vars

(* A call for an entity that does not exist, and a call with a state delay  *)
(* whose two gates differ: the state may be on or off, the validation       *)
(* wants on.                                                                *)
GateCalls ==
    {[Call("ctx1", {"binary_sensor.invalid"}, MaxRetries, FALSE, None) EXCEPT
        !.expected_state = <<"on">>],
     [Call("ctx1", {"binary_sensor.test"}, MaxRetries, FALSE, None) EXCEPT
        !.expected_state = <<"on", "off">>,
        !.validation = <<"[[", "is_state(entity_id, 'on')", "]]">>,
        !.state_delay = 1]}

WaitSteps ==
    \/ \E i \in 1..Len(chain), state \in States : StateDelayDone(i, state)
    \/ \E i \in 1..Len(chain), state \in States : StateGraceDone(i, state)

NextGates == (\E data \in GateCalls : async_action(data)) \/ ChainSteps \/ WaitSteps
SpecGates == Init /\ [][NextGates]_vars

(* A call whose expected state the entity may not have, with a state delay, *)
(* and a call of one attempt whose validation may not hold, without one.    *)
WaitCalls ==
    {[Call("ctx1", {"binary_sensor.test"}, MaxRetries, FALSE, None) EXCEPT
        !.expected_state = <<"off">>, !.state_delay = 1],
     [Call("ctx1", {"binary_sensor.test"}, 1, FALSE, None) EXCEPT
        !.validation = <<"[[", "is_state(entity_id, 'on')", "]]">>]}

NextWaits == (\E data \in WaitCalls : async_action(data)) \/ ChainSteps \/ WaitSteps
SpecWaits == Init /\ [][NextWaits]_vars

(* Calls with an expected state only: a number for a number entity (one     *)
(* attempt), a list for a binary sensor.                                    *)
ExpectedCalls ==
    {[Call("ctx1", {"input_number.test"}, 1, FALSE, None) EXCEPT
        !.expected_state = <<"50">>],
     [Call("ctx1", {"binary_sensor.test"}, MaxRetries, FALSE, None) EXCEPT
        !.expected_state = <<"dummy", "on">>]}

NextExpected ==
    \/ \E data \in ExpectedCalls : async_action(data)
    \/ ChainSteps
    \/ \E i \in 1..Len(chain), state \in States : StateGraceDone(i, state)

SpecExpected == Init /\ [][NextExpected]_vars

(* Calls of an action that never raises: a validation over attempt, a       *)
(* validation that holds, an expected state without an entity.              *)
CheckCalls ==
    {[Call("ctx1", {}, DEFAULT_RETRIES, FALSE, None) EXCEPT
        !.validation = <<"[[", "attempt >= 3", "]]">>],
     [Call("ctx1", {}, MaxRetries, FALSE, None) EXCEPT
        !.validation = <<"[[", "True", "]]">>],
     [Call("ctx1", {}, MaxRetries, FALSE, None) EXCEPT
        !.expected_state = <<"test">>]}

NextChecks ==
    \/ \E data \in CheckCalls : async_action(data)
    \/ \E i \in 1..Len(chain) : TaskStart(i)
    \/ \E i \in 1..Len(chain) : TimerFire(i)
    \/ \E i \in 1..Len(chain), state \in States : CallReturns(i, state)
    \/ AdvanceTime

SpecChecks == Init /\ [][NextChecks]_vars

(* Calls with a fallback, with and without a target, by two callers, and a  *)
(* call without fallback.                                                   *)
OnErrorCalls ==
    {[Call(x, {}, MaxRetries, FALSE, None) EXCEPT !.on_error = TRUE] : x \in ContextIds}
    \cup {[Call("ctx1", {"binary_sensor.test"}, r, FALSE, None) EXCEPT !.on_error = TRUE] :
            r \in {1, MaxRetries}}
    \cup {Call("ctx1", {}, MaxRetries, FALSE, None)}

NextOnError ==
    \/ \E data \in OnErrorCalls : async_action(data)
    \/ ChainSteps
    \/ \E i \in 1..Len(chain) : OnErrorDone(i)

SpecOnError == Init /\ [][NextOnError]_vars

(* Calls whose targets are groups: a plain group, a nested one, one that    *)
(* reaches an entity twice, an entity beside a group that holds it, a       *)
(* group without members and a group that lists itself.                     *)
GroupCalls ==
    {Call("ctx1", {"light.test"}, MaxRetries, FALSE, None)}
    \cup {Call("ctx1", S, 1, FALSE, None) :
            S \in {{"group.nested"}, {"group.twice"}, {"light.test", "light.invalid"},
                   {"group.empty"}, {"group.loop"}}}

NextGroups == (\E data \in GroupCalls : async_action(data)) \/ ChainSteps
SpecGroups == Init /\ [][NextGroups]_vars

(* Calls of an action that never raises, for an entity that exists and     *)
(* stays available, for one that does not exist, for both, and for both     *)
(* under one retry_id; every call also selects no device.                   *)
SelectiveCalls ==
    {[Call("ctx1", S, r, FALSE, None) EXCEPT !.device_id = "none"] :
        S \in {{"binary_sensor.test", "binary_sensor.invalid"},
               {"binary_sensor.test"}, {"binary_sensor.invalid"}},
        r \in 1..MaxRetries}
    \cup {[Call("ctx1", {"binary_sensor.test", "binary_sensor.invalid"},
                MaxRetries, TRUE, "id") EXCEPT !.device_id = "none"]}

NextSelective ==
    \/ \E data \in SelectiveCalls : async_action(data)
    \/ \E i \in 1..Len(chain) : TaskStart(i)
    \/ \E i \in 1..Len(chain) : TimerFire(i)
    \/ \E i \in 1..Len(chain), state \in States \ {"unavailable"} : CallReturns(i, state)
    \/ AdvanceTime

SpecSelective == Init /\ [][NextSelective]_vars

(* Two callers of the same call, one with every retry count and one with    *)
(* the least and the greatest, beside a call whose retry_id is null.        *)
OwnerCalls ==
    {Call("ctx1", {}, r, FALSE, None) : r \in 1..MaxRetries}
    \cup {Call("ctx2", {}, r, FALSE, None) : r \in {1, MaxRetries}}
    \cup {Call("ctx1", {}, 1, TRUE, None)}

NextOwner == (\E data \in OwnerCalls : async_action(data)) \/ ChainSteps
SpecOwner == Init /\ [][NextOwner]_vars

(* The sequences of the calls of retry.actions: a call node, and a          *)
(* sequence put into each place of each kind of node.                       *)
Leaf(domain_service) ==
    [kind |-> "call", action |-> domain_service,
     data |-> [invalid_field |-> FALSE], target |-> {}]

Places == {"top", "repeat", "choose", "default", "then", "else", "parallel", "sequence"}

Place(place, sequence) ==
    CASE place = "top" -> sequence
      [] place = "repeat" -> <<[kind |-> "repeat", count |-> 1, sequence |-> sequence]>>
      [] place = "choose" -> <<[kind |-> "choose", choose |-> <<sequence>>]>>
      [] place = "default" ->
            <<[kind |-> "choose", choose |-> <<>>, default |-> sequence]>>
      [] place = "then" -> <<[kind |-> "if", then |-> sequence]>>
      [] place = "else" -> <<[kind |-> "if", then |-> <<>>, else |-> sequence]>>
      [] place = "parallel" -> <<[kind |-> "parallel", parallel |-> <<sequence>>]>>
      [] place = "sequence" -> <<[kind |-> "sequence", sequence |-> sequence]>>

ActionsCall(context, sequence) ==
    [context |-> context, sequence |-> sequence, retries |-> MaxRetries,
     backoff |-> DEFAULT_BACKOFF, has_retry_id |-> FALSE, retry_id |-> None,
     on_error |-> FALSE, expected_state |-> Absent, validation |-> Absent,
     state_delay |-> 0]

(* Calls of retry.actions whose one call node is in every place, at depth   *)
(* one and two, and calls with two call nodes, with a condition or a        *)
(* repetition between them.                                                 *)
ActionsCalls ==
    {ActionsCall("ctx1", Place(p, Place(q, <<Leaf(TEST_SERVICE)>>))) : p, q \in Places}
    \cup {ActionsCall("ctx1", <<Leaf(TEST_SERVICE), Leaf(TEST_SERVICE)>>),
          ActionsCall("ctx1", <<Leaf(TEST_SERVICE), [kind |-> "condition"],
                                Leaf(TEST_SERVICE)>>),
          ActionsCall("ctx1", <<[kind |-> "repeat", count |-> 2,
                                 sequence |-> <<Leaf(TEST_SERVICE)>>]>>)}

(* The action of the call nodes always raises.                              *)
ScriptSteps ==
    \/ \E pick \in 0..2 : ScriptStep(pick)
    \/ ScriptDone
    \/ \E i \in 1..Len(chain) : TaskStart(i)
    \/ \E i \in 1..Len(chain) : TimerFire(i)
    \/ \E i \in 1..Len(chain) : CallRaises(i)
    \/ AdvanceTime

NextActions == (\E data \in ActionsCalls : async_actions(data)) \/ ScriptSteps
SpecActions == Init /\ [][NextActions]_vars

(* Calls of retry.actions with a good call node followed by a call node     *)
(* that is not allowed or not valid, in every place at depth one and two:   *)
(* a call of retry.actions, retry.action or retry.call, a call of an        *)
(* unknown action and a call with a field the action rejects; and one good  *)
(* call.                                                                    *)
BadLeaves ==
    {Leaf(ACTIONS_SERVICE), Leaf(ACTION_SERVICE), Leaf(CALL_SERVICE), Leaf("retry.invalid"),
     [Leaf(TEST_SERVICE) EXCEPT !.data.invalid_field = TRUE]}

RejectedCalls ==
    {ActionsCall("ctx1", <<Leaf(TEST_SERVICE)>> \o Place(p, Place(q, <<bad>>))) :
        p, q \in Places, bad \in BadLeaves}
    \cup {ActionsCall("ctx1", <<Leaf(TEST_SERVICE)>>)}

NextRejected == (\E data \in RejectedCalls : async_actions(data)) \/ ScriptSteps
SpecRejected == Init /\ [][NextRejected]_vars

(* Calls that share a retry_id within one caller and between two callers,   *)
(* a call with two targets under that retry_id, a call under another        *)
(* retry_id and a call whose retry_id is null.                              *)
RegistryCalls ==
    {Call("ctx1", {}, r, TRUE, "id") : r \in {1, MaxRetries}}
    \cup {Call("ctx2", {}, 1, TRUE, "id")}
    \cup {Call("ctx1", {"binary_sensor.test", "binary_sensor.test2"}, 1, TRUE, "id")}
    \cup {Call("ctx1", {}, MaxRetries, TRUE, "id2")}
    \cup {Call("ctx1", {}, 1, TRUE, None)}

SpecRegistry ==
    Init /\ [][(\E data \in RegistryCalls : async_action(data)) \/ ChainSteps]_vars

(* A caller that calls again after another caller took its retry_id: up to  *)
(* MaxReturning chains of two callers under the default retry_id.           *)
ReturningCalls ==
    {Call("ctx1", {}, MaxRetries, FALSE, None), Call("ctx2", {}, 1, FALSE, None)}

SpecReturning ==
    Init /\ [][\/ \E data \in ReturningCalls :
                      /\ async_action_bounded(data, MaxReturning)
                      /\ UNCHANGED <<script, lock_vars>>
               \/ ChainSteps]_vars

(* Calls at the lower end of the retries field: -1, 0 and 1.  With retries  *)
(* 0 the attempts have no end, so the behaviours stop at attempt MaxAttempt. *)
ZeroCalls == {Call(x, {}, r, FALSE, None) : x \in ContextIds, r \in {-1, 0, 1}}

SpecZero ==
    Init /\ [][\/ \E data \in ZeroCalls : async_action(data)
               \/ /\ ChainSteps
                  /\ \A i \in 1..Len(chain') : chain'[i].attempt <= MaxAttempt]_vars

(* Threads of RetryActions that share a retry_id within one context and    *)
(* between two, and of one without retry_id.                                *)
LockSelves == {<<"id", "ctx1">>, <<"id", "ctx2">>, <<None, "ctx1">>}

SpecLock ==
    Init /\ [][\/ \E t \in Threads, self \in LockSelves :
                      EnterStart(t, self[1], self[2])
               \/ \E t \in Threads : EnterEnd(t)
               \/ \E t \in Threads : Acquire(t)
               \/ \E t \in Threads : Read(t)
               \/ \E t \in Threads : Write(t)
               \/ \E t \in Threads : Release(t)]_vars

(* Calls of every retry count and a call whose backoff renders to text      *)
(* that is no number, with the scheduling the event loop gives: a task      *)
(* that can run does run, an inner call returns or raises, time passes      *)
(* and a timer that is due fires.                                           *)
FairCalls ==
    {Call("ctx1", {}, r, FALSE, None) : r \in 1..MaxRetries}
    \cup {[Call("ctx1", {}, MaxRetries, FALSE, None) EXCEPT
              !.backoff = <<"[[", "'A'", "]]">>]}

ChainStep(i) ==
    /\ i \in 1..Len(chain)
    /\ \/ TaskStart(i)
       \/ TimerFire(i)
       \/ \E state \in States : CallReturns(i, state)
       \/ CallRaises(i)

SpecFair ==
    /\ Init /\ [][(\E data \in FairCalls : async_action(data)) \/ ChainSteps]_vars
    /\ WF_vars(AdvanceTime)
    /\ \A i \in 1..MaxChains : WF_vars(ChainStep(i))

-----------------------------------------------------------------------------
(* C1: a chain never invokes the inner action more than retries times and   *)
(* creates at most one repair ticket; a ticket exists only after the        *)
(* retries-th failure, by when the action was invoked exactly retries       *)
(* times; and the retries-th failure, with repair tickets enabled, creates  *)
(* the ticket.                                                              *)
C1_Counts ==
    \A i \in 1..Len(chain) :
        LET self == chain[i] IN
        /\ self.calls <= self.params.retries
        /\ self.repairs <= 1
        /\ self.repairs = 1 =>
                self.calls = self.params.retries /\ self.fails = self.params.retries
        /\ self.pc \in {"FALLBACK", "EXHAUSTED"} =>
                self.calls = self.params.retries /\ self.fails = self.params.retries

C1_LastFailure ==
    \A i \in 1..Len(chain) :
        (/\ chain[i].fails < chain[i].params.retries
         /\ chain'[i].fails = chain[i].params.retries
         /\ ~disable_repair)
        => /\ chain'[i].repairs = 1
           /\ chain'[i].calls = chain[i].params.retries
           /\ _compose_action_str(chain[i]) \in issues'

(* C1: exactly retries invocations, then exactly one repair ticket.         *)
C1_ExactlyRetriesThenOneTicket == [](C1_Counts) /\ [][C1_LastFailure]_vars

C1_Witness ==
    \E i \in 1..Len(chain) :
        /\ chain[i].pc = "EXHAUSTED"
        /\ chain[i].params.retries = MaxRetries
        /\ chain[i].calls = MaxRetries
        /\ chain[i].fails = MaxRetries
        /\ chain[i].repairs = 1
        /\ issues = {_compose_action_str(chain[i])}

(* C2: a chain that has succeeded at attempt k was invoked exactly k times, *)
(* k - 1 of them failed, k is at most retries, it created no repair ticket, *)
(* ran no fallback and has no timer armed; and it stays SUCCEEDED.          *)
C2_Succeeded ==
    \A i \in 1..Len(chain) :
        chain[i].pc = "SUCCEEDED" =>
            /\ chain[i].calls = chain[i].attempt
            /\ chain[i].fails = chain[i].attempt - 1
            /\ chain[i].attempt <= chain[i].params.retries
            /\ chain[i].repairs = 0
            /\ chain[i].fallbacks = 0
            /\ chain[i].timer = NoTimer
            /\ _compose_action_str(chain[i]) \in issues =>
                    \E j \in 1..Len(chain) : j # i /\ chain[j].repairs = 1

C2_SucceededStays ==
    \A i \in 1..Len(chain) : chain[i].pc = "SUCCEEDED" => chain'[i] = chain[i]

(* C2: success at attempt k means k invocations and nothing else.           *)
C2_SuccessAtAttemptK == [](C2_Succeeded) /\ [][C2_SucceededStays]_vars

C2_Witness ==
    \E i \in 1..Len(chain) :
        /\ chain[i].pc = "SUCCEEDED"
        /\ chain[i].params.on_error
        /\ chain[i].attempt = MaxRetries
        /\ chain[i].calls = MaxRetries
        /\ chain[i].fails = MaxRetries - 1

(* C3: when attempt n < retries fails, the chain moves to attempt n + 1 and  *)
(* its timer is armed with the backoff of attempt index n - 1 as the time   *)
(* left from the failure: 1, 2, 4, 8, 16, 32 for the default expression,    *)
(* 10 for the constant "10"; the timer fires only when that time has passed.*)
DefaultDelays == <<1, 2, 4, 8, 16, 32>>

C3_Delay(backoff, n) ==
    IF backoff = <<"{{", "2 ** attempt", "}}">> THEN DefaultDelays[n] ELSE 10

C3_Armed ==
    \A i \in 1..Len(chain) :
        LET n == chain[i].attempt
            renders == chain[i].params.backoff \in {<<"{{", "2 ** attempt", "}}">>, <<"10">>}
        IN  /\ (chain'[i].fails = chain[i].fails + 1 /\ n < chain[i].params.retries /\ renders)
                => /\ chain'[i].pc = "SCHEDULED_RETRY"
                   /\ chain'[i].attempt = n + 1
                   /\ chain'[i].timer = C3_Delay(chain[i].params.backoff, n)
            /\ (chain[i].pc # "SCHEDULED_RETRY" /\ chain'[i].pc = "SCHEDULED_RETRY")
                => /\ chain'[i].fails = chain[i].fails + 1
                   /\ n < chain[i].params.retries
                   /\ renders
            /\ (chain[i].pc = "SCHEDULED_RETRY" /\ chain'[i].pc # "SCHEDULED_RETRY")
                => chain[i].timer = 0

(* C3: every retry is scheduled with the backoff of the completed attempt.  *)
C3_BackoffOfCompletedAttempt == [][C3_Armed]_vars

C3_Witness ==
    \E i \in 1..Len(chain) :
        /\ chain[i].params.backoff = DEFAULT_BACKOFF_FIXED
        /\ chain[i].pc = "SCHEDULED_RETRY"
        /\ chain[i].attempt = DEFAULT_RETRIES
        /\ chain[i].fails = DEFAULT_RETRIES - 1
        /\ chain[i].timer = 32

(* C5: a backoff expression that does not render to a number is rejected    *)
(* when the call is resolved, so no chain is left without a timer and       *)
(* without a terminal state by a failure to render it when the retry is     *)
(* scheduled.                                                               *)
C5_BackoffCheckedAtResolution ==
    \A i \in 1..Len(chain) : chain[i].pc # "ABORTED"

(* C4: a chain whose retry_id was taken by another context while it waited  *)
(* for its timer, and whose own context did not take the retry_id back,     *)
(* makes no invocation after that and can only stop as CANCELLED; when the  *)
(* chain that took the retry_id is exhausted, the two have made the first   *)
(* chain's invocations so far plus the second chain's full retry count.     *)
C4_TakenBack(i) ==
    \E k \in 1..Len(chain) :
        /\ k > chain[i].sup.by
        /\ chain[k].retry_id = chain[i].retry_id
        /\ chain[k].context = chain[i].context

(* C4: a chain superseded while waiting stops without another invocation.   *)
C4_SupersededWhileWaiting ==
    \A i \in 1..Len(chain) :
        (chain[i].sup.pc = "SCHEDULED_RETRY" /\ ~C4_TakenBack(i)) =>
            LET j == chain[i].sup.by IN
            /\ chain[i].calls = chain[i].sup.calls
            /\ chain[i].pc \in {"SCHEDULED_RETRY", "CANCELLED"}
            /\ chain[i].repairs = 0
            /\ chain[j].pc = "EXHAUSTED" =>
                    chain[i].calls + chain[j].calls
                        = chain[i].sup.calls + chain[j].params.retries

C4_Witness ==
    /\ Len(chain) = 2
    /\ chain[1].context # chain[2].context
    /\ chain[1].retry_id = chain[2].retry_id
    /\ chain[1].sup = [calls |-> 1, pc |-> "SCHEDULED_RETRY", by |-> 2]
    /\ chain[1].pc = "CANCELLED"
    /\ chain[2].pc = "EXHAUSTED"
    /\ chain[2].params.retries = MaxRetries
    /\ chain[1].calls + chain[2].calls = 1 + MaxRetries

(* C6: a call of an unknown action, or one whose inner parameters the       *)
(* action's schema rejects, raises to the caller and creates no chain,      *)
(* changes no chain, no timer, no ticket and no registry entry.             *)
C6_Rejected ==
    (/\ last_call' # last_call
     /\ last_call'.action \notin HassServices \/ last_call'.invalid_field)
    => /\ last_call'.raised # None
       /\ last_call'.action \notin HassServices => last_call'.raised = "ServiceNotFound"
       /\ chain' = chain
       /\ running_retries' = running_retries
       /\ issues' = issues

C6_NoChainOfUnknownAction ==
    \A i \in 1..Len(chain) : chain[i].params.action \in HassServices

(* C6: a resolution error is raised before any background work.             *)
C6_ResolutionErrorBeforeAnyWork ==
    [](C6_NoChainOfUnknownAction) /\ [][C6_Rejected]_vars

C6_Witness ==
    /\ last_call.invalid_field
    /\ last_call.raised = "Invalid"
    /\ Len(chain) = 1
    /\ chain[1].pc = "SCHEDULED_RETRY"
    /\ DOMAIN running_retries = {TEST_SERVICE}

(* C7: the registry holds an entry for a retry_id only while some chain     *)
(* with that retry_id has not reached SUCCEEDED, EXHAUSTED or CANCELLED;    *)
(* and of two chains with one retry_id and different contexts, the second   *)
(* created when the first was no longer running, the second is never        *)
(* cancelled and is exhausted only after its full retry count.              *)
C7_Alone(i, j) ==
    \A k \in 1..Len(chain) :
        chain[k].retry_id = chain[i].retry_id => k \in {i, j}

(* C7: terminated chains leave no registry entry behind.                     *)
C7_NoEntryLeft ==
    /\ \A id \in DOMAIN running_retries :
            \E i \in 1..Len(chain) :
                chain[i].retry_id = id /\ chain[i].pc \notin Terminal
    /\ \A i, j \in 1..Len(chain) :
            (/\ i < j
             /\ chain[i].retry_id = chain[j].retry_id
             /\ chain[i].context # chain[j].context
             /\ chain[i].sup = NoSup
             /\ C7_Alone(i, j))
            => /\ chain[i].pc \in Terminal
               /\ chain[j].pc # "CANCELLED"
               /\ chain[j].pc = "EXHAUSTED" => chain[j].calls = chain[j].params.retries

C7_Witness ==
    /\ Len(chain) = 2
    /\ chain[1].context # chain[2].context
    /\ chain[1].retry_id = chain[2].retry_id
    /\ chain[1].sup = NoSup
    /\ chain[1].pc = "EXHAUSTED" /\ chain[1].calls = MaxRetries
    /\ chain[2].pc = "EXHAUSTED" /\ chain[2].calls = MaxRetries
    /\ DOMAIN running_retries = {}

(* C8: a chain is not cancelled while every chain with its retry_id has its *)
(* context, and such a chain is exhausted only after its full retry count.  *)
C8_OneOwner(i) ==
    \A k \in 1..Len(chain) :
        chain[k].retry_id = chain[i].retry_id => chain[k].context = chain[i].context

(* C8: chains of one context sharing a retry_id never cancel one another.    *)
C8_SameOwnerNeverCancels ==
    \A i \in 1..Len(chain) :
        C8_OneOwner(i) =>
            /\ chain[i].pc # "CANCELLED"
            /\ chain[i].pc = "EXHAUSTED" => chain[i].calls = chain[i].params.retries
            /\ chain[i].pc \notin Terminal => _check_id(running_retries, chain[i])

C8_Witness ==
    /\ Len(chain) = 2
    /\ chain[1].entity_id # None
    /\ chain[2].entity_id # None
    /\ chain[1].entity_id # chain[2].entity_id
    /\ chain[1].retry_id = "id" /\ chain[2].retry_id = "id"
    /\ chain[1].context = chain[2].context
    /\ chain[1].pc = "EXHAUSTED" /\ chain[1].calls = MaxRetries
    /\ chain[2].pc = "EXHAUSTED" /\ chain[2].calls = MaxRetries

(* C9: a chain whose retry_id is null or empty is never cancelled and is    *)
(* exhausted only after its full retry count; the registry has no entry     *)
(* under null or the empty string, and a step that creates or changes only  *)
(* such chains leaves the registry unchanged.                               *)
C9_NeverCancelled ==
    /\ DOMAIN running_retries \cap {None, ""} = {}
    /\ \A i \in 1..Len(chain) :
            chain[i].retry_id \in {None, ""} =>
                /\ chain[i].pc # "CANCELLED"
                /\ chain[i].pc = "EXHAUSTED" => chain[i].calls = chain[i].params.retries

C9_RegistryUntouched ==
    (\A i \in 1..Len(chain') :
        (i > Len(chain) \/ chain'[i] # chain[i]) => chain'[i].retry_id \in {None, ""})
    => running_retries' = running_retries

(* C9: a null or empty retry_id keeps the chain out of the registry.         *)
C9_DisabledIdentity == [](C9_NeverCancelled) /\ [][C9_RegistryUntouched]_vars

C9_Witness ==
    /\ Len(chain) = 2
    /\ chain[1].retry_id = None /\ chain[2].retry_id = ""
    /\ chain[1].context # chain[2].context
    /\ chain[1].pc = "EXHAUSTED" /\ chain[1].calls = MaxRetries
    /\ chain[2].pc = "EXHAUSTED" /\ chain[2].calls = MaxRetries
    /\ running_retries = <<>>

(* C10: the retry_id of a chain whose call gave none is its entity id when  *)
(* it has one and the name of the inner action otherwise; a later chain of  *)
(* another context whose call gave that string as retry_id holds the        *)
(* registry entry against it, unless the first context took it back.        *)
(* C10: the default retry_id is the entity id, else the inner action name.   *)
C10_DefaultIdentity ==
    \A i \in 1..Len(chain) :
        ~chain[i].params.has_retry_id =>
            /\ chain[i].entity_id # None => chain[i].retry_id = chain[i].entity_id
            /\ chain[i].entity_id = None => chain[i].retry_id = chain[i].params.action
            /\ \A j \in 1..Len(chain) :
                    (/\ j > i
                     /\ chain[j].params.has_retry_id
                     /\ chain[j].params.retry_id
                            = (IF chain[i].entity_id # None THEN chain[i].entity_id
                               ELSE chain[i].params.action)
                     /\ chain[j].context # chain[i].context
                     /\ \A k \in 1..Len(chain) :
                            k > j => ~(/\ chain[k].retry_id = chain[i].retry_id
                                       /\ chain[k].context = chain[i].context))
                    => /\ chain[i].pc \notin Terminal =>
                            ~_check_id(running_retries, chain[i])
                       /\ chain[i].pc \notin Terminal => chain[i].sup # NoSup
                       /\ chain[i].sup # NoSup => chain[i].calls = chain[i].sup.calls

C10_Witness ==
    /\ Len(chain) = 2
    /\ ~chain[1].params.has_retry_id
    /\ chain[1].entity_id = "binary_sensor.test"
    /\ chain[2].params.has_retry_id
    /\ chain[2].params.retry_id = "binary_sensor.test"
    /\ chain[2].entity_id = None
    /\ chain[1].context # chain[2].context
    /\ chain[1].pc = "CANCELLED" /\ chain[1].calls = 1
    /\ chain[2].pc = "EXHAUSTED" /\ chain[2].calls = MaxRetries

(* C11: the fallback of a chain runs at most once; it has run exactly when  *)
(* the chain has a fallback and its retries-th attempt has failed, never    *)
(* for a chain that succeeded or was cancelled or is still before that      *)
(* failure; it starts in the step of the retries-th failure, after retries  *)
(* invocations, with the entity id of the chain as its variable when the    *)
(* chain has one.                                                           *)
C11_Fallbacks ==
    \A i \in 1..Len(chain) :
        LET self == chain[i] IN
        /\ self.fallbacks <= 1
        /\ self.fallbacks = 1 <=>
                (self.params.on_error /\ self.pc \in {"FALLBACK", "EXHAUSTED"})
        /\ self.fallbacks = 1 =>
                /\ self.fails = self.params.retries
                /\ self.calls = self.params.retries
                /\ self.on_error_vars = self.entity_id
        /\ self.pc \in {"SUCCEEDED", "CANCELLED"} => self.fallbacks = 0
        /\ self.fails < self.params.retries => self.fallbacks = 0
        /\ self.pc = "FALLBACK" => self.params.on_error

C11_StartsAtLastFailure ==
    \A i \in 1..Len(chain) :
        (chain'[i].fallbacks # chain[i].fallbacks) <=>
            /\ chain[i].params.on_error
            /\ chain[i].fails = chain[i].params.retries - 1
            /\ chain'[i].fails = chain[i].params.retries

(* C11: the fallback runs exactly once, exactly when attempt retries fails. *)
C11_FallbackOnlyAtExhaustion == [](C11_Fallbacks) /\ [][C11_StartsAtLastFailure]_vars

C11_Witness ==
    \E i, j \in 1..Len(chain) :
        /\ chain[i].pc = "EXHAUSTED"
        /\ chain[i].entity_id = "binary_sensor.test"
        /\ chain[i].params.retries = MaxRetries
        /\ chain[i].calls = MaxRetries
        /\ chain[i].fallbacks = 1
        /\ chain[i].on_error_vars = "binary_sensor.test"
        /\ chain[j].params.on_error
        /\ chain[j].pc = "SUCCEEDED"
        /\ chain[j].fallbacks = 0

(* C12: the step in which attempt retries fails creates the ticket exactly  *)
(* when disable_repair is not set in the state the step starts from;        *)
(* whether set or not, the step takes the chain out of its registry entry   *)
(* and starts the fallback when there is one.                               *)
C12_Released(i) ==
    LET self == chain[i] IN
    (Truthy(self.retry_id) /\ _check_id(running_retries, self)) =>
        IF running_retries[self.retry_id].count = 1
        THEN self.retry_id \notin DOMAIN running_retries'
        ELSE running_retries'[self.retry_id]
                = [ctx |-> self.context,
                   count |-> running_retries[self.retry_id].count - 1]

C12_AtLastFailure ==
    \A i \in 1..Len(chain) :
        (/\ chain[i].fails < chain[i].params.retries
         /\ chain'[i].fails = chain[i].params.retries)
        => /\ chain'[i].repairs = (IF disable_repair THEN 0 ELSE 1)
           /\ disable_repair => issues' = issues
           /\ ~disable_repair => issues' = issues \cup {_compose_action_str(chain[i])}
           /\ C12_Released(i)
           /\ chain[i].params.on_error => chain'[i].fallbacks = 1

C13_Descriptions == {_compose_action_str(chain[i]) : i \in {k \in 1..Len(chain) : chain[k].repairs = 1}}

(* C13: one ticket per rendered call, its id the rendering.                 *)
C13_OneTicketPerDescription ==
    /\ issues = C13_Descriptions
    /\ \A i, j \in 1..Len(chain) :
            (/\ chain[i].repairs = 1 /\ chain[j].repairs = 1
             /\ _compose_action_str(chain[i]) = _compose_action_str(chain[j]))
            => Cardinality({t \in issues : t = _compose_action_str(chain[i])}) = 1

C13_Witness ==
    /\ Len(chain) = 2
    /\ chain[1].repairs = 1
    /\ chain[2].repairs = 1
    /\ chain[1].params.retries # chain[2].params.retries
    /\ _compose_action_str(chain[1]) = _compose_action_str(chain[2])
    /\ Cardinality(issues) = 1

(* C14: a call removes the ticket of its rendering: right after a call has  *)
(* created its chains, no ticket with the rendering of one of them exists.  *)
C14_TicketRemovedByLaterRequest ==
    [][\A i \in (Len(chain) + 1)..Len(chain') :
            _compose_action_str(chain'[i]) \notin issues']_vars

(* C15: a chain that has succeeded has an entity that exists, when it has   *)
(* one, and both gates pass on the one state its last evaluation read; a    *)
(* chain whose entity does not exist never gets past the availability       *)
(* check, so each of its invocations fails and it is exhausted after        *)
(* retries failures; a step that takes a chain from the invocation to the   *)
(* waits or to success needs an available state.                            *)
C15_Succeeded ==
    \A i \in 1..Len(chain) :
        LET self == chain[i] IN
        /\ self.pc = "SUCCEEDED" =>
                /\ self.entity_id \notin MissingEntities
                /\ self.calls = self.fails + 1
                /\ gates_read(self) =>
                        /\ self.seen \in StatesOf(self)
                        /\ _check_state(self, self.seen)
                        /\ _check_validation(self, self.seen)
        /\ self.entity_id \in MissingEntities =>
                /\ self.pc \notin {"SUCCEEDED", "STATE_DELAY", "STATE_GRACE"}
                /\ self.delays = 0 /\ self.graces = 0
                /\ self.fails = IF self.pc = "IN_FLIGHT" THEN self.calls - 1 ELSE self.calls
                /\ self.pc = "EXHAUSTED" => self.fails = self.params.retries

C15_AfterInvocation ==
    \A i \in 1..Len(chain) :
        /\ (chain[i].pc # "SUCCEEDED" /\ chain'[i].pc = "SUCCEEDED")
                => chain[i].pc \in {"IN_FLIGHT", "STATE_DELAY", "STATE_GRACE"}
        /\ (/\ chain[i].pc = "IN_FLIGHT"
            /\ chain'[i].pc \in {"STATE_DELAY", "STATE_GRACE", "SUCCEEDED"}
            /\ chain[i].entity_id # None)
                => \E state \in StatesOf(chain[i]) : available(state)

C16_Counts ==
    \A i \in 1..Len(chain) :
        LET self == chain[i] IN
        /\ self.delays <= self.calls
        /\ self.graces <= self.calls
        /\ self.params.state_delay = 0 => self.delays = 0
        /\ self.params.state_delay > 0 => self.graces <= self.delays
        /\ self.gate_fails \in {self.graces - 1, self.graces}
        /\ self.pc = "STATE_GRACE" => self.gate_fails = self.graces - 1
        /\ self.pc \notin {"STATE_GRACE", "SUCCEEDED"} => self.gate_fails = self.graces
        /\ (self.pc = "EXHAUSTED" /\ self.gate_fails = self.params.retries) =>
                /\ self.graces = self.params.retries
                /\ self.params.state_delay > 0 => self.delays = self.params.retries

C16_Waits ==
    \A i \in 1..Len(chain) :
        LET self == chain[i]
            next == chain'[i]
        IN  /\ (self.pc # "STATE_DELAY" /\ next.pc = "STATE_DELAY") =>
                    /\ self.pc = "IN_FLIGHT"
                    /\ self.params.state_delay > 0
                    /\ next.delays = self.delays + 1
            /\ (self.pc = "IN_FLIGHT" /\ self.params.state_delay > 0) =>
                    next.pc \notin {"STATE_GRACE", "SUCCEEDED"}
            /\ (self.pc = "STATE_DELAY" /\ ~validation_raises(self)) =>
                    /\ next.pc \in {"STATE_DELAY", "STATE_GRACE", "SUCCEEDED"}
                    /\ next.delays = self.delays
            /\ (self.pc # "STATE_GRACE" /\ next.pc = "STATE_GRACE") =>
                    /\ self.pc = IF self.params.state_delay > 0 THEN "STATE_DELAY"
                                 ELSE "IN_FLIGHT"
                    /\ next.graces = self.graces + 1
            /\ (self.pc = "STATE_GRACE" /\ next # self) =>
                    /\ next.pc \in {"SUCCEEDED", "SCHEDULED_RETRY", "EXHAUSTED"}
                    /\ next.graces = self.graces
                    /\ next.pc # "SUCCEEDED" => next.gate_fails = self.gate_fails + 1
            /\ (self.pc \in {"STATE_DELAY", "STATE_GRACE"}
                    /\ next.pc \in {"STATE_DELAY", "STATE_GRACE", "SUCCEEDED"}) =>
                    /\ next.attempt = self.attempt
                    /\ next.calls = self.calls
                    /\ next.fails = self.fails
            /\ self.pc \in {"STATE_DELAY", "STATE_GRACE"} => next.calls = self.calls

(* C16: one state_delay and at most one state_grace in an attempt.          *)
C16_OneDelayOneGrace == [](C16_Counts) /\ [][C16_Waits]_vars

C16_Witness ==
    \E i \in 1..Len(chain) :
        /\ chain[i].pc = "EXHAUSTED"
        /\ chain[i].params.state_delay > 0
        /\ chain[i].params.retries = MaxRetries
        /\ chain[i].calls = MaxRetries
        /\ chain[i].gate_fails = MaxRetries
        /\ chain[i].graces = MaxRetries
        /\ chain[i].delays = MaxRetries

(* C17: with an action that never raises and a validation that holds from   *)
(* attempt 3 on, the chain makes at most 3 invocations and stops only as    *)
(* SUCCEEDED, after exactly 3.                                              *)
C17_SucceedsAtAttempt3 ==
    \A i \in 1..Len(chain) :
        chain[i].params.validation = <<"{{", "attempt >= 3", "}}">> =>
            /\ chain[i].calls <= 3
            /\ chain[i].pc \in Terminal =>
                    chain[i].pc = "SUCCEEDED" /\ chain[i].calls = 3

(* C18: a chain whose gates hold before the first invocation (no expected   *)
(* state, a validation that is true) never invokes the action.              *)
C18_NoInvocationWhenGatesHold ==
    \A i \in 1..Len(chain) :
        (/\ chain[i].params.validation = <<"{{", "True", "}}">>
         /\ chain[i].params.expected_state = Absent)
        => chain[i].calls = 0

(* C19: a call with an expected state and no entity is rejected: there is   *)
(* no chain without an entity that has an expected state.                   *)
C19_ExpectedStateRequiresEntity ==
    \A i \in 1..Len(chain) :
        chain[i].entity_id = None => chain[i].params.expected_state = Absent

(* C20: the expected-state gate lets a state pass exactly when the state is *)
(* one of the expected strings or is a number equal to an expected number:  *)
(* a chain with only that gate has succeeded on a state that passes, and    *)
(* waits state_grace on a state that does not.                              *)
C20_Numbers == {"50", "50.0", "7", "7.0"}

C20_Value(s) == IF s \in {"50", "50.0"} THEN 50 ELSE 7

C20_Passes(state, expected) ==
    \E k \in 1..Len(expected) :
        \/ state = expected[k]
        \/ /\ state \in C20_Numbers
           /\ expected[k] \in C20_Numbers
           /\ C20_Value(state) = C20_Value(expected[k])

(* C20: equal strings or equal numbers pass, nothing else does.             *)
C20_ExpectedStateMatch ==
    \A i \in 1..Len(chain) :
        LET self == chain[i] IN
        (self.params.expected_state # Absent /\ self.params.validation = Absent) =>
            /\ self.pc = "SUCCEEDED" =>
                    /\ self.seen \in StatesOf(self)
                    /\ C20_Passes(self.seen, self.params.expected_state)
            /\ self.pc = "STATE_GRACE" =>
                    /\ self.seen \in StatesOf(self)
                    /\ ~C20_Passes(self.seen, self.params.expected_state)

C20_Witness ==
    \E i, j \in 1..Len(chain) :
        /\ chain[i].params.expected_state = <<"50">>
        /\ chain[i].pc = "SUCCEEDED"
        /\ chain[i].seen = "50.0"
        /\ chain[i].graces = 0
        /\ chain[j].params.expected_state = <<"dummy", "on">>
        /\ chain[j].pc = "STATE_GRACE"
        /\ chain[j].seen = "off"

-----------------------------------------------------------------------------
(* C21: the chains one call of retry.action creates are for distinct        *)
(* entities: no entity gets two chains from one call, also when it is       *)
(* reached directly and through a group, or through a group on two paths.   *)
(* The code joins the expansions of the referenced entities without         *)
(* removing repetitions, so this fails.                                     *)
C21_OneChainPerEntity ==
    [][\A i, j \in (Len(chain) + 1)..Len(chain') :
            i # j => chain'[i].entity_id # chain'[j].entity_id]_vars

-----------------------------------------------------------------------------
(* C23: the chains a call creates are for exactly the entities that are no  *)
(* groups and are reached from the referenced entities through group        *)
(* membership, at any depth (one chain without entity when there is none);  *)
(* no chain is ever for a group; and a call that reaches a group which      *)
(* contains itself ends with an error and creates no chain.                 *)
C23_Members(S) ==
    UNION {{extra_state_attributes(g)[k] : k \in 1..Len(extra_state_attributes(g))} :
            g \in S \cap Groups}

RECURSIVE C23_Reach(_)
C23_Reach(S) ==
    IF C23_Members(S) \subseteq S THEN S ELSE C23_Reach(S \cup C23_Members(S))

C23_Cyclic(S) == \E g \in C23_Reach(S) \cap Groups : g \in C23_Reach(C23_Members({g}))

C23_NoGroupChain ==
    \A i \in 1..Len(chain) : chain[i].entity_id \notin Groups \cup {RecursionError}

C23_ExpandsToPlainEntities ==
    [][\A data \in GroupCalls : async_action(data) =>
        LET new == {chain'[k].entity_id : k \in (Len(chain) + 1)..Len(chain')}
            plain == C23_Reach(data.entity_id) \ Groups
        IN  IF C23_Cyclic(data.entity_id)
            THEN new = {} /\ last_call'.raised = RecursionError
            ELSE /\ last_call'.raised = None
                 /\ new = IF plain = {} THEN {None} ELSE plain]_vars

-----------------------------------------------------------------------------
(* C22: the chain of a target invokes the action with that entity as the    *)
(* only target, the other target fields of the call removed; a step of one  *)
(* chain leaves every other chain as it was; and with an action that never  *)
(* raises, whatever the other chains do, the chain of an available entity   *)
(* invokes once and succeeds, and the chain of a missing entity is never    *)
(* cancelled and is exhausted after exactly retries invocations.            *)
C22_OwnTarget ==
    \A i \in 1..Len(chain) :
        chain[i].entity_id # None =>
            chain[i].inner_data = [entity_id |-> {chain[i].entity_id},
                                   device_id |-> None]

C22_Outcome ==
    \A i \in 1..Len(chain) :
        /\ chain[i].pc \notin {"CANCELLED", "ABORTED"}
        /\ chain[i].entity_id = "binary_sensor.test" =>
                /\ chain[i].calls <= 1
                /\ chain[i].pc \in {"PENDING", "IN_FLIGHT", "SUCCEEDED"}
        /\ chain[i].entity_id = "binary_sensor.invalid" =>
                /\ chain[i].pc # "SUCCEEDED"
                /\ chain[i].calls <= chain[i].params.retries
                /\ chain[i].pc = "EXHAUSTED" => chain[i].calls = chain[i].params.retries
                /\ chain[i].pc = "SCHEDULED_RETRY" => chain[i].calls < chain[i].params.retries

C22_OneChainPerStep ==
    [][\A i, j \in 1..Len(chain) :
            (i # j /\ chain'[i].pc # chain[i].pc) => chain'[j] = chain[j]]_vars

C22_IndependentChains == [](C22_OwnTarget /\ C22_Outcome) /\ C22_OneChainPerStep

(* One call for both entities: the available one was invoked once and       *)
(* succeeded, the missing one was invoked retries times and is exhausted.   *)
C22_Witness ==
    /\ Len(chain) = 2
    /\ chain[1].params = chain[2].params
    /\ chain[1].params.retries = MaxRetries
    /\ \E i, j \in 1..2 :
        /\ chain[i].entity_id = "binary_sensor.test"
        /\ chain[i].pc = "SUCCEEDED" /\ chain[i].calls = 1
        /\ chain[j].entity_id = "binary_sensor.invalid"
        /\ chain[j].pc = "EXHAUSTED" /\ chain[j].calls = MaxRetries

-----------------------------------------------------------------------------
(* C29: a chain whose retry_id is held by another context when an attempt   *)
(* starts becomes CANCELLED in that step: nothing else of the chain         *)
(* changes (no invocation, no ticket, no fallback), its timer is cleared    *)
(* and the registry and the tickets stay as they were; a chain becomes      *)
(* CANCELLED in no other step and never changes afterwards; and a chain     *)
(* whose retry_id another context took, and its own context did not take    *)
(* back, is cancelled by its next check.                                    *)
C29_Checked(i) ==
    /\ chain[i].pc \in {"PENDING", "SCHEDULED_RETRY"}
    /\ chain'[i].pc \notin {"PENDING", "SCHEDULED_RETRY"}

C29_HeldByOther(i) ==
    /\ Truthy(chain[i].retry_id)
    /\ chain[i].retry_id \in DOMAIN running_retries
    /\ running_retries[chain[i].retry_id].ctx # chain[i].context

C29_Step(i) ==
    /\ (C29_Checked(i) /\ C29_HeldByOther(i)) =>
            /\ chain'[i] = [chain[i] EXCEPT
                    !.pc = "CANCELLED", !.timer = NoTimer,
                    !.owner_seen = running_retries[chain[i].retry_id].ctx]
            /\ running_retries' = running_retries
            /\ issues' = issues
    /\ (chain'[i].pc = "CANCELLED" /\ chain[i].pc # "CANCELLED") => C29_Checked(i)
    /\ chain[i].pc = "CANCELLED" => chain'[i] = chain[i]
    /\ (C29_Checked(i) /\ chain[i].sup # NoSup /\ ~C4_TakenBack(i)) =>
            chain'[i].pc = "CANCELLED"

C29_CancelledAtCheck == [][\A i \in 1..Len(chain) : C29_Step(i)]_vars

(* The first chain failed once, lost its retry_id to the second while it    *)
(* waited, and its next check found the second as the owner.                *)
C29_Witness ==
    /\ Len(chain) = 2
    /\ chain[1].sup = [calls |-> 1, pc |-> "SCHEDULED_RETRY", by |-> 2]
    /\ chain[1].pc = "CANCELLED"
    /\ chain[1].owner_seen = chain[2].context
    /\ chain[1].calls = 1 /\ chain[1].repairs = 0 /\ chain[1].timer = NoTimer
    /\ chain[2].pc \notin Terminal

-----------------------------------------------------------------------------
(* C30 as stated: a check cancels the chain exactly when an entry exists    *)
(* for its retry_id whose context is not the chain's.  The code also        *)
(* cancels a chain whose retry_id has no entry, so this fails.              *)
C30_CancelledOnlyByOtherOwner ==
    [][\A i \in 1..Len(chain) :
        C29_Checked(i) => (chain'[i].pc = "CANCELLED" <=> C29_HeldByOther(i))]_vars

(* C30, amended: a check lets the chain proceed exactly when its retry_id   *)
(* is null or empty, or an entry exists for it whose context is the         *)
(* chain's; a chain whose retry_id has no entry is cancelled like one       *)
(* whose entry belongs to another context.                                  *)
C30_Current(i) ==
    \/ chain[i].retry_id \in {None, ""}
    \/ /\ chain[i].retry_id \in DOMAIN running_retries
       /\ running_retries[chain[i].retry_id].ctx = chain[i].context

C30_CancelledUnlessOwner ==
    [][\A i \in 1..Len(chain) :
        C29_Checked(i) =>
            /\ chain'[i].pc = "CANCELLED" <=> ~C30_Current(i)
            /\ chain'[i].pc = "IN_FLIGHT" <=> C30_Current(i)]_vars

(* The second chain took the retry_id of the first and finished, and the    *)
(* check of the first then found no entry.                                  *)
C30_Witness ==
    /\ Len(chain) = 2
    /\ chain[1].pc = "CANCELLED"
    /\ chain[1].owner_seen = NoEntry
    /\ chain[2].pc = "EXHAUSTED"
    /\ chain[2].context # chain[1].context

-----------------------------------------------------------------------------
(* C28: every inner call and every run of the on_error sequence gets the    *)
(* context of the call of retry.action that created the chain.  The code    *)
(* gives each a new Context whose parent is that context, so this fails.    *)
C28_ContextPropagated ==
    \A i \in 1..Len(chain) :
        /\ chain[i].calls > 0 => chain[i].call_context.id = chain[i].context
        /\ chain[i].fallbacks > 0 => chain[i].on_error_context.id = chain[i].context

-----------------------------------------------------------------------------
(* The call nodes of a sequence, in every place of every node, in the       *)
(* order of the document; and the sequence with every call node blanked.    *)
RECURSIVE C24_LeavesOf(_), C24_LeavesOfEach(_), C24_LeavesOfNode(_)
C24_LeavesOf(sequence) ==
    IF sequence = <<>> THEN <<>>
    ELSE C24_LeavesOfNode(Head(sequence)) \o C24_LeavesOf(Tail(sequence))

C24_LeavesOfEach(sequences) ==
    IF sequences = <<>> THEN <<>>
    ELSE C24_LeavesOf(Head(sequences)) \o C24_LeavesOfEach(Tail(sequences))

C24_LeavesOfNode(node) ==
    LET has(key) == key \in DOMAIN node IN
    IF node.kind = "call" THEN <<node>>
    ELSE (IF has("sequence") THEN C24_LeavesOf(node.sequence) ELSE <<>>)
         \o (IF has("choose") THEN C24_LeavesOfEach(node.choose) ELSE <<>>)
         \o (IF has("default") THEN C24_LeavesOf(node.default) ELSE <<>>)
         \o (IF has("then") THEN C24_LeavesOf(node.then) ELSE <<>>)
         \o (IF has("else") THEN C24_LeavesOf(node.else) ELSE <<>>)
         \o (IF has("parallel") THEN C24_LeavesOfEach(node.parallel) ELSE <<>>)

RECURSIVE C25_Blanked(_), C25_BlankedEach(_), C25_BlankedNode(_)
C25_Blanked(sequence) == [k \in 1..Len(sequence) |-> C25_BlankedNode(sequence[k])]

C25_BlankedEach(sequences) == [k \in 1..Len(sequences) |-> C25_Blanked(sequences[k])]

C25_BlankedNode(node) ==
    IF node.kind = "call" THEN [kind |-> "call"]
    ELSE [key \in DOMAIN node |->
            IF key \in {"sequence", "default", "then", "else"} THEN C25_Blanked(node[key])
            ELSE IF key \in {"choose", "parallel"} THEN C25_BlankedEach(node[key])
            ELSE node[key]]

-----------------------------------------------------------------------------
(* C24: a call of retry.actions whose sequence holds, in any place at any   *)
(* depth, a call of retry.actions, retry.action or retry.call raises        *)
(* IntegrationError, and no call node of the sequence is run: the script    *)
(* never starts and no chain exists.                                        *)
C24_Nested ==
    \E k \in 1..Len(C24_LeavesOf(script.sequence)) :
        C24_LeavesOf(script.sequence)[k].action
            \in {ACTIONS_SERVICE, ACTION_SERVICE, CALL_SERVICE}

C24_NestedRetryRejected ==
    (script.pc # "NONE" /\ C24_Nested) =>
        /\ script.pc = "RAISED"
        /\ script.raised = "IntegrationError"
        /\ script.invoked = 0
        /\ chain = <<>>

(* The call of retry.action is in the default of a choose in the else of    *)
(* an if, after a good call.                                                *)
C24_Witness ==
    /\ script.pc = "RAISED"
    /\ script.sequence =
        <<Leaf(TEST_SERVICE)>> \o Place("else", Place("default", <<Leaf(ACTION_SERVICE)>>))
    /\ script.raised = "IntegrationError"

-----------------------------------------------------------------------------
(* C25: in the rewritten sequence every call node, in every place, calls    *)
(* retry.action with the name, the arguments and the target of the          *)
(* original node and the retry parameters of the call of retry.actions,     *)
(* and everything that is no call node is as it was; each call node the     *)
(* script reaches creates one chain with those parameters and the context   *)
(* of the script, which is never cancelled and, its action always raising,  *)
(* is exhausted after exactly retries invocations.                          *)
C25_Rewritten ==
    LET old == C24_LeavesOf(script.sequence)
        new == C24_LeavesOf(script.wrapped)
    IN  script.pc \in {"RUNNING", "DONE"} =>
            /\ Len(new) = Len(old)
            /\ C25_Blanked(script.wrapped) = C25_Blanked(script.sequence)
            /\ \A k \in 1..Len(new) :
                /\ new[k].action = ACTION_SERVICE
                /\ new[k].target = old[k].target
                /\ new[k].data.action = old[k].action
                /\ new[k].data.invalid_field = old[k].data.invalid_field
                /\ new[k].data.retries = script.retries
                /\ new[k].data.backoff = DEFAULT_BACKOFF_FIXED
                /\ ~new[k].data.has_retry_id

C25_Chains ==
    /\ Len(chain) = script.invoked
    /\ \A i \in 1..Len(chain) :
        /\ chain[i].params.action = TEST_SERVICE
        /\ chain[i].params.retries = script.retries
        /\ chain[i].context = script.context
        /\ chain[i].calls <= script.retries
        /\ chain[i].pc \notin {"CANCELLED", "SUCCEEDED", "ABORTED"}
        /\ chain[i].pc = "EXHAUSTED" => chain[i].calls = script.retries
        /\ chain[i].pc = "SCHEDULED_RETRY" => chain[i].calls < script.retries

C25_EveryLeafRetried == C25_Rewritten /\ C25_Chains

(* The call node in the default of a choose in a parallel was run and its   *)
(* chain is exhausted.                                                      *)
C25_Witness ==
    /\ script.pc = "DONE"
    /\ script.sequence = Place("parallel", Place("default", <<Leaf(TEST_SERVICE)>>))
    /\ Len(chain) = 1
    /\ chain[1].pc = "EXHAUSTED"
    /\ chain[1].calls = MaxRetries

-----------------------------------------------------------------------------
(* C26: a call of retry.actions whose sequence holds, in any place at any   *)
(* depth, a call of an unknown action or a call with a field its action     *)
(* rejects raises that error before the script starts: no call node is      *)
(* run, also not one that comes before it, and no chain exists.             *)
C26_Malformed ==
    \E k \in 1..Len(C24_LeavesOf(script.sequence)) :
        LET leaf == C24_LeavesOf(script.sequence)[k] IN
        \/ leaf.action = "retry.invalid"
        \/ leaf.data.invalid_field

C26_LeavesValidatedAtRewrite ==
    (script.pc # "NONE" /\ C26_Malformed) =>
        /\ script.pc = "RAISED"
        /\ script.raised \in {"ServiceNotFound", "Invalid"}
        /\ script.invoked = 0
        /\ chain = <<>>

(* The call with the rejected field is in a repeat in a then, after a good  *)
(* call.                                                                    *)
C26_Witness ==
    /\ script.pc = "RAISED"
    /\ script.raised = "Invalid"
    /\ script.sequence =
        <<Leaf(TEST_SERVICE)>>
            \o Place("then", Place("repeat",
                    <<[Leaf(TEST_SERVICE) EXCEPT !.data.invalid_field = TRUE]>>))

-----------------------------------------------------------------------------
(* C27: while the script runs and its next node is a call, the call can be  *)
(* made whatever the chains of the earlier calls are doing; a script that   *)
(* started never raises; and the chains never change the script.            *)
C27_NextLeafCanRun ==
    (/\ script.pc = "RUNNING"
     /\ script.todo # <<>>
     /\ Len(chain) < MaxChains)
    => (Head(script.todo).kind = "call" => ENABLED ScriptStep(0))

C27_NeverRaises == script.pc # "RAISED"

C27_ChainsLeaveScript ==
    [][(\E i \in 1..Len(chain) : chain'[i].calls # chain[i].calls
                                  \/ chain'[i].fails # chain[i].fails)
        => script' = script]_vars

C27_ReturnsAfterInitialPass ==
    [](C27_NextLeafCanRun /\ C27_NeverRaises) /\ C27_ChainsLeaveScript

(* The run is over; the second call was made after a failure of the first   *)
(* chain, which is exhausted, and the second chain still waits for its      *)
(* next attempt.                                                            *)
C27_Witness ==
    /\ script.pc = "DONE"
    /\ script.after_failure
    /\ Len(chain) = 2
    /\ chain[1].pc = "EXHAUSTED"
    /\ chain[2].pc = "SCHEDULED_RETRY"

-----------------------------------------------------------------------------
(* acquire(identity, owner) as the claim words it.                          *)
C31_acquire(rr, identity, owner) ==
    LET entry == IF identity \notin DOMAIN rr THEN [ctx |-> owner, count |-> 1]
                 ELSE IF rr[identity].ctx = owner
                 THEN [ctx |-> owner, count |-> rr[identity].count + 1]
                 ELSE [ctx |-> owner, count |-> 1]
    IN  [k \in DOMAIN rr \cup {identity} |-> IF k = identity THEN entry ELSE rr[k]]

(* The acquires of the chains chs[from..], one after another.               *)
RECURSIVE C31_AcquireAll(_, _, _)
C31_AcquireAll(rr, chs, from) ==
    IF from > Len(chs) THEN rr
    ELSE C31_AcquireAll(IF Truthy(chs[from].retry_id)
                        THEN C31_acquire(rr, chs[from].retry_id, chs[from].context)
                        ELSE rr,
                        chs, from + 1)

(* A step that creates chains leaves the registry as one acquire per new    *)
(* chain leaves it: the last new chain of an identity owns its entry and    *)
(* the entries of the other identities are as before.                       *)
C31_CreationAcquires ==
    Len(chain') > Len(chain) =>
        /\ running_retries' = C31_AcquireAll(running_retries, chain', Len(chain) + 1)
        /\ \A i \in (Len(chain) + 1)..Len(chain') :
                Truthy(chain'[i].retry_id) =>
                    /\ chain'[i].retry_id \in DOMAIN running_retries'
                    /\ running_retries'[chain'[i].retry_id].ctx = chain'[i].context
        /\ \A k \in DOMAIN running_retries :
                (\A i \in (Len(chain) + 1)..Len(chain') : chain'[i].retry_id # k) =>
                    (k \in DOMAIN running_retries' /\ running_retries'[k] = running_retries[k])

(* No other step acquires: no entry appears, changes owner or grows.        *)
C31_NoOtherAcquire ==
    Len(chain') = Len(chain) =>
        \A k \in DOMAIN running_retries' :
            /\ k \in DOMAIN running_retries
            /\ running_retries'[k].ctx = running_retries[k].ctx
            /\ running_retries'[k].count <= running_retries[k].count

(* C31: the creation of a chain acquires its identity once: (owner, 1) for  *)
(* a free identity, count + 1 for the same owner, (owner, 1) over another   *)
(* owner's entry; the other identities keep their entries, and no other     *)
(* step acquires.                                                           *)
C31_AcquireAtCreation == [][C31_CreationAcquires /\ C31_NoOtherAcquire]_vars

(* Two chains of different identities were acquired one after the other    *)
(* and have both used their whole budget.                                   *)
C31_Witness ==
    /\ Len(chain) = 2
    /\ chain[1].retry_id = "id" /\ chain[2].retry_id = "id2"
    /\ chain[1].params.retries = MaxRetries /\ chain[2].params.retries = MaxRetries
    /\ chain[1].pc = "EXHAUSTED" /\ chain[1].fails = MaxRetries
    /\ chain[2].pc = "EXHAUSTED" /\ chain[2].fails = MaxRetries

-----------------------------------------------------------------------------
(* release(identity, owner) as the claim words it.                          *)
C32_release(rr, identity, owner) ==
    IF ~Truthy(identity) \/ identity \notin DOMAIN rr THEN rr
    ELSE IF rr[identity].ctx # owner THEN rr
    ELSE IF rr[identity].count - 1 = 0
    THEN [k \in DOMAIN rr \ {identity} |-> rr[k]]
    ELSE [rr EXCEPT ![identity].count = @ - 1]

(* The chain ends an attempt with success or with its last failure.         *)
C32_Releases(i) ==
    /\ i <= Len(chain)
    /\ chain[i].pc \notin {"SUCCEEDED", "EXHAUSTED", "FALLBACK"}
    /\ chain'[i].pc \in {"SUCCEEDED", "EXHAUSTED", "FALLBACK"}

C32_ReleaseStep ==
    \A i \in 1..Len(chain') :
        C32_Releases(i) =>
            running_retries' = C32_release(running_retries, chain[i].retry_id,
                                           chain[i].context)

C32_CountsPositive ==
    \A k \in DOMAIN running_retries : running_retries[k].count >= 1

(* C32: a chain that ends releases its identity: the count of its own       *)
(* entry goes down by one and the entry is deleted at zero; with a          *)
(* disabled identity, no entry or an entry of another owner the registry    *)
(* stays as it is; no stored count is below 1.                              *)
C32_ReleaseOnlyOwnEntry == [](C32_CountsPositive) /\ [][C32_ReleaseStep]_vars

(* A chain superseded during its call has succeeded and the entry of the    *)
(* chain that superseded it is still there with its count.                  *)
C32_Witness ==
    /\ Len(chain) = 2
    /\ chain[1].retry_id = "id" /\ chain[1].context = "ctx1"
    /\ chain[1].sup.pc = "IN_FLIGHT"
    /\ chain[1].pc = "SUCCEEDED"
    /\ chain[2].context = "ctx2"
    /\ chain[2].pc \notin Terminal
    /\ running_retries = [k \in {"id"} |-> [ctx |-> "ctx2", count |-> 1]]

-----------------------------------------------------------------------------
(* The chains that hold the identity for the owner and have not ended.      *)
C33_Live(identity, owner) ==
    {i \in 1..Len(chain) :
        /\ chain[i].retry_id = identity
        /\ chain[i].context = owner
        /\ chain[i].pc \notin Terminal \cup {"FALLBACK"}}

(* C33: the count of an entry is the number of chains of its owner and      *)
(* identity that have not ended.  It fails when a caller acquires again     *)
(* an identity that another caller took from its waiting chain: the entry   *)
(* restarts at 1 while two chains of the caller are alive.                  *)
C33_CountIsLiveChains ==
    \A k \in DOMAIN running_retries :
        running_retries[k].count = Cardinality(C33_Live(k, running_retries[k].ctx))

-----------------------------------------------------------------------------
(* The registry after the chain gave up its share of its entry.             *)
C34_AfterRelease(rr, self) ==
    IF self.retry_id \in DOMAIN rr /\ rr[self.retry_id].ctx = self.context
    THEN IF rr[self.retry_id].count = 1
         THEN [k \in DOMAIN rr \ {self.retry_id} |-> rr[k]]
         ELSE [rr EXCEPT ![self.retry_id].count = @ - 1]
    ELSE rr

(* The step in which attempt retries fails: when the fallback starts the    *)
(* ticket is there, unless disabled, and the identity is released.          *)
C34_LastFailure(i) ==
    (chain[i].pc \notin {"FALLBACK", "EXHAUSTED"}
        /\ chain'[i].pc \in {"FALLBACK", "EXHAUSTED"}) =>
        /\ chain[i].attempt = chain[i].params.retries
        /\ issues' = IF disable_repair THEN issues
                      ELSE issues \cup {_action_str(chain[i])}
        /\ running_retries' = C34_AfterRelease(running_retries, chain[i])
        /\ chain'[i].pc = "FALLBACK" <=> chain[i].params.on_error
        /\ chain'[i].timer = NoTimer

(* The fallback runs: nothing of the chain moves but its end.               *)
C34_Fallback(i) ==
    chain[i].pc = "FALLBACK" =>
        /\ chain'[i].pc \in {"FALLBACK", "EXHAUSTED"}
        /\ chain'[i].calls = chain[i].calls
        /\ chain'[i].attempt = chain[i].attempt
        /\ chain'[i].timer = NoTimer
        /\ chain'[i].pc = "EXHAUSTED" => UNCHANGED <<running_retries, issues>>

(* After the fallback the chain does nothing more.                          *)
C34_Stopped(i) == chain[i].pc = "EXHAUSTED" => chain'[i] = chain[i]

(* C34: at the failure of attempt retries the chain creates the ticket      *)
(* (unless disabled) and releases its identity before the fallback starts;  *)
(* the fallback changes neither; after it the chain arms no timer and       *)
(* makes no attempt.                                                        *)
C34_TicketReleaseThenFallback ==
    [][\A i \in 1..Len(chain) :
            C34_LastFailure(i) /\ C34_Fallback(i) /\ C34_Stopped(i)]_vars

(* A fallback is running, the ticket exists and the entry is gone.          *)
C34_Witness ==
    /\ Len(chain) = 1
    /\ chain[1].pc = "FALLBACK"
    /\ chain[1].fails = MaxRetries
    /\ _action_str(chain[1]) \in issues
    /\ chain[1].retry_id \notin DOMAIN running_retries

-----------------------------------------------------------------------------
(* C35: the attempt number of a chain is between 1 and retries and the      *)
(* chain has invoked the inner action no more often than that.  The schema  *)
(* accepts retries 0, and a chain of such a call starts at attempt 1 and    *)
(* goes on without end.                                                     *)
C35_AttemptWithinRetries ==
    \A i \in 1..Len(chain) :
        /\ 1 <= chain[i].attempt
        /\ chain[i].attempt <= chain[i].params.retries
        /\ chain[i].calls <= chain[i].attempt

-----------------------------------------------------------------------------
(* C36: a chain whose retry_id another caller took during its inner call    *)
(* lets the call end and then drops the outcome: no ticket, no fallback.    *)
(* When the call was attempt retries and it fails, the except branch of     *)
(* async_retry creates the ticket and runs on_error without looking at the  *)
(* registry.                                                                *)
C36_OutcomeDiscarded ==
    \A i \in 1..Len(chain) :
        (chain[i].sup.pc = "IN_FLIGHT" /\ chain[i].calls = chain[i].sup.calls) =>
            /\ chain[i].repairs = 0
            /\ chain[i].fallbacks = 0

-----------------------------------------------------------------------------
(* The threads between the entry and the exit of a with block.              *)
C37_Inside == {t \in Threads : threads[t].pc \in {"READ", "WRITE", "EXIT"}}

(* C37: _start_id and _end_id of concurrent threads act on the registry as  *)
(* if run one at a time, in the order in which they took the lock; one      *)
(* thread at most is inside a with block, it holds the lock, and the lock   *)
(* is free when none is.                                                    *)
C37_OneCriticalSection ==
    /\ Cardinality(C37_Inside) <= 1
    /\ \A t \in C37_Inside : _running_retries_write_lock = t
    /\ C37_Inside = {} =>
            /\ _running_retries_write_lock = Unlocked
            /\ running_retries = serial

(* Two threads of one context have both acquired the retry_id and one has   *)
(* released it: the entry counts the other.                                 *)
C37_Witness ==
    /\ threads[1].retry_id = "id" /\ threads[2].retry_id = "id"
    /\ threads[1].context = "ctx1" /\ threads[2].context = "ctx1"
    /\ threads[1].pc = "DONE"
    /\ threads[2].pc = "RUNNING"
    /\ running_retries = [k \in {"id"} |-> [ctx |-> "ctx1", count |-> 1]]

-----------------------------------------------------------------------------
(* C38: a chain is CANCELLED only when a chain of another context acquired  *)
(* its retry_id after it (chains are in the order of their acquires).  It   *)
(* fails for the last of three chains when the first has its context: the   *)
(* first chain, taken for the owner again, ends and deletes the entry.      *)
C38_CancelledOnlyByLaterOwner ==
    \A i \in 1..Len(chain) :
        chain[i].pc = "CANCELLED" =>
            \E k \in (i + 1)..Len(chain) :
                /\ chain[k].retry_id = chain[i].retry_id
                /\ chain[k].context # chain[i].context

-----------------------------------------------------------------------------
(* C39: with fair scheduling every chain ends as SUCCEEDED, EXHAUSTED or    *)
(* CANCELLED.  A chain whose backoff does not render to a number leaves     *)
(* async_retry by the ValueError at its first failure and never ends.       *)
C39_EveryChainEnds ==
    \A i \in 1..MaxChains :
        (i <= Len(chain)) ~> (i <= Len(chain) /\ chain[i].pc \in Terminal)

-----------------------------------------------------------------------------
(* The attempts of the chain that have started and not ended.               *)
C40_InFlight(self) ==
    self.calls - self.fails - (IF self.pc = "SUCCEEDED" THEN 1 ELSE 0)

C40_OneAtATime ==
    \A i \in 1..Len(chain) :
        LET armed == IF chain[i].timer # NoTimer THEN 1 ELSE 0 IN
        /\ C40_InFlight(chain[i]) \in {0, 1}
        /\ C40_InFlight(chain[i]) + armed <= 1
        /\ chain[i].pc \in Terminal => C40_InFlight(chain[i]) + armed = 0

C40_ArmedAfterFailure ==
    \A i \in 1..Len(chain) :
        (chain[i].timer = NoTimer /\ chain'[i].timer # NoTimer) =>
            /\ chain'[i].fails = chain[i].fails + 1
            /\ chain[i].attempt < chain[i].params.retries

(* C40: a chain has one attempt in flight or one timer armed at most, and   *)
(* neither once it has ended; a timer is armed only by the failure of an    *)
(* attempt before attempt retries.  A chain of a call with retries 0 arms   *)
(* a timer after attempt 1, which is past its retries.                      *)
C40_OneAttemptOrTimer == [](C40_OneAtATime) /\ [][C40_ArmedAfterFailure]_vars

=============================================================================
